---- MODULE Spec2Model ----
(***************************************************************************)
(* Model of the SIEM detection / correlation core:                         *)
(*   backend/src/services/intrusionDetector.js   (IntrusionDetector)       *)
(*   unnamed/part_000                            (CorrelationEngine)       *)
(*   backend/src/models/IntrusionAlert.js, Log.js (the two collections)    *)
(*   backend/src/services/notificationService.js (notification records)    *)
(*                                                                         *)
(* Time is counted in ticks of 5 minutes (300000 ms).  A message or title  *)
(* is the set of the substrings and patterns, among those the code tests,  *)
(* that the text contains.  Sizes are counted in MiB.  riskScore is kept   *)
(* times 100 (a whole number), confidence in percent.                      *)
(***************************************************************************)
EXTENDS Integers, Sequences, FiniteSets, TLC

(* ------------------------------ bounds -------------------------------- *)
\* Logs ever stored.
MaxLogs == 3
\* Last tick of the clock.
MaxTime == 2
\* Repository failures / rule exceptions the environment may inject.
MaxFaults == 1
\* Timeline entries kept per alert.
MaxTimeline == 3
\* Notification records kept per alert.
MaxNotifications == 1
\* Alerts in the store when an analyst posts one.
MaxPosted == 1
\* Logs stored in the alert lifecycle scenario.
MaxAlertLogs == 1
\* Failed-login logs in the brute-force scenario.
MaxBruteLogs == 7
\* Logs of the batch the repeated detection cycle runs over.
MaxBatch == 3
\* Failed logins stored while two detection cycles overlap.
MaxMergeLogs == 12
\* Alerts in the store when the escalation scans run.
MaxEscalationAlerts == 2
\* Escalation scans.
MaxScans == 2
\* Failed logins stored in the scenario of the brute-force rule.
MaxLoginLogs == 8
\* The tick the correlation-horizon scenario starts at: the stored logs are older
\* than every rule window but the longest.
HorizonStart == 13
\* How many ticks before its ingestion a late log may be dated.
MaxAge == 2
\* Logs in the scenario of the data-breach rule.
MaxBreachLogs == 6
\* Logs in the scenario of the attack-chain rule.
MaxChainLogs == 5
\* Addresses and requests in the scenario of the anomalous-volume rule.
MaxClients == 11
MaxTrafficLogs == 90

(* ------------------------- program constants -------------------------- *)
\* alertThresholds.bruteForceAttempts
bruteForceAttempts == 5
\* alertThresholds.timeWindow: 300000 ms = 1 tick
timeWindow == 1
\* alertThresholds.anomalyThreshold (standard deviations)
anomalyThreshold == 3
\* alertThresholds.dataTransferThreshold: 100 * 1024 * 1024 bytes = 100 MiB
dataTransferThreshold == 100
\* "count > 50" minimum of the anomaly rule
anomalyFloor == 50
\* 50 * 1024 * 1024 bytes of the data-breach rule = 50 MiB
breachVolume == 50
\* "events.length >= 5" of the data-breach rule
breachAccesses == 5
\* The per-rule thresholds ">= 3" of the three grouping correlation rules
chainStages == 3
coordinatedIps == 3
lateralSystems == 3
\* 300000 ms buckets of the coordinated-attack rule = 1 tick
bucketTicks == 1

\* The addresses logs arrive from; the first two are the ones the detection
\* scenarios use.
Attackers == {"203.0.113.10", "198.51.100.7"}
IPs == Attackers \cup {"192.0.2.5"}
NoIp == ""
Users == {"u1"}
NoUser == ""
NoTime == -1
NoCorrelation == <<>>

(* ------------------------------- logs --------------------------------- *)
\* Log documents as ingestion stores them; each stands for a concrete message.
\* "Failed password for admin from <ip>"
FailedLogin ==
  [category |-> "security", message |-> {"failed"}, size |-> 0,
   user |-> "admin", source |-> "sshd"]
\* "GET /items?id=1 UNION SELECT passwd FROM users"
SqlInjection ==
  [category |-> "application", message |-> {"union select"}, size |-> 0,
   user |-> NoUser, source |-> "web"]
\* "Privilege escalation attempt by www-data"
PrivEsc ==
  [category |-> "system", message |-> {"privilege", "escalat", "privilege.*escalat"},
   size |-> 0, user |-> NoUser, source |-> "kernel"]
\* "Large download completed" with details.size = 60 MiB
Download ==
  [category |-> "application", message |-> {"download"}, size |-> 60,
   user |-> NoUser, source |-> "web"]
\* "Port scan detected"
Scan ==
  [category |-> "network", message |-> {"scan"}, size |-> 0,
   user |-> NoUser, source |-> "firewall"]
\* "Accepted login for admin" on one of three hosts
LoginAt(src) ==
  [category |-> "security", message |-> {"login"}, size |-> 0,
   user |-> "admin", source |-> src]

\* "GET /index.html 200"
Request ==
  [category |-> "application", message |-> {}, size |-> 0,
   user |-> NoUser, source |-> "web"]

\* "Port scan of the login service"
LoginScan ==
  [category |-> "network", message |-> {"scan", "login"}, size |-> 0,
   user |-> NoUser, source |-> "firewall"]
\* "Lateral movement to host db01"
Lateral ==
  [category |-> "network", message |-> {"lateral", "movement"}, size |-> 0,
   user |-> NoUser, source |-> "ids"]
\* "Data exfiltration to remote host"
Exfiltration ==
  [category |-> "network", message |-> {"data", "exfiltrat"}, size |-> 0,
   user |-> NoUser, source |-> "ids"]

\* "Export of table orders finished" with details.size = 10 MiB
Export ==
  [category |-> "database", message |-> {"export"}, size |-> 10,
   user |-> NoUser, source |-> "db"]
\* "Backup archive copied" with details.size = 20 MiB
Backup ==
  [category |-> "system", message |-> {"backup"}, size |-> 20,
   user |-> NoUser, source |-> "backup"]
\* "Large transfer completed" with details.size = 60 MiB
Transfer ==
  [category |-> "network", message |-> {}, size |-> 60,
   user |-> NoUser, source |-> "firewall"]

MkLog(tpl, ip, ts) ==
  [category |-> tpl.category, message |-> tpl.message, size |-> tpl.size,
   user |-> tpl.user, source |-> tpl.source,
   sourceIp |-> ip, timestamp |-> ts, processed |-> FALSE]

(* ----------------------------- helpers -------------------------------- *)
Min(a, b) == IF a < b THEN a ELSE b
Max(a, b) == IF a > b THEN a ELSE b
Range(s) == {s[i] : i \in 1..Len(s)}

RECURSIVE SumOver(_, _)
SumOver(f, S) ==
  IF S = {} THEN 0
  ELSE LET x == CHOOSE y \in S : TRUE IN f[x] + SumOver(f, S \ {x})

RECURSIVE Concat(_)
Concat(ss) == IF ss = <<>> THEN <<>> ELSE Head(ss) \o Concat(Tail(ss))

\* The values of s, each once, in the order of their first occurrence
\* (the key order of a JavaScript Map filled while scanning s).
FirstAt(s) == {i \in 1..Len(s) : \A j \in 1..(i - 1) : s[j] # s[i]}

FirstSeen(s) ==
  [k \in 1..Cardinality(FirstAt(s)) |->
     s[CHOOSE i \in FirstAt(s) : Cardinality({j \in FirstAt(s) : j < i}) = k - 1]]

\* Floor of the square root.
ISqrt(n) == CHOOSE r \in 0..n : r * r <= n /\ (r + 1) * (r + 1) > n

(* ----------------------- detection rule engine ------------------------ *)
\* this.detectionRules, in evaluation order (name, type, severity).
detectionRules ==
  << [name |-> "Brute Force Detection", type |-> "brute_force", severity |-> "high"],
     [name |-> "SQL Injection Detection", type |-> "sql_injection", severity |-> "critical"],
     [name |-> "Unusual Traffic Pattern", type |-> "anomaly", severity |-> "medium"],
     [name |-> "Privilege Escalation", type |-> "privilege_escalation", severity |-> "high"],
     [name |-> "Data Exfiltration", type |-> "data_exfiltration", severity |-> "critical"] >>

sqlPatterns ==
  {"union select", "or 1=1", "drop table", "insert into", "delete from",
   "update .* set", "exec(", "script>"}

privilegePatterns ==
  {"sudo su", "chmod 777", "chown root", "privilege.*escalat", "admin.*access",
   "root.*shell"}

\* Keys (sourceIp) of the ids in ids, in Map insertion order.
IpsOf(L, ids) == FirstSeen([k \in 1..Len(ids) |-> L[ids[k]].sourceIp])

FromIp(L, ids, ip) == SelectSeq(ids, LAMBDA i : L[i].sourceIp = ip)

\* Mutant: the confidence is not capped.
BruteForceConfidenceUncapped(n) == 60 + (n * 5)

BruteForceConfidence(n) == Min(95, 60 + (n * 5))

\* Mutant: the attempts threshold is not applied.
detectBruteForceAnyCount(L, batch) ==
  LET failed == SelectSeq(batch, LAMBDA i : LET l == L[i] IN
                  l.category = "security" /\ "failed" \in l.message /\ l.sourceIp # NoIp)
      hit == IpsOf(L, failed)
  IN [k \in 1..Len(hit) |->
        [title |-> {}, sourceIp |-> hit[k],
         confidence |-> BruteForceConfidence(Len(FromIp(L, failed, hit[k]))),
         relatedLogs |-> FromIp(L, failed, hit[k]),
         affectedAssets |-> {"Authentication System"}]]

detectBruteForce(L, batch) ==
  LET failed == SelectSeq(batch, LAMBDA i : LET l == L[i] IN
                  l.category = "security" /\ "failed" \in l.message /\ l.sourceIp # NoIp)
      hit == SelectSeq(IpsOf(L, failed),
                       LAMBDA ip : Len(FromIp(L, failed, ip)) >= bruteForceAttempts)
  IN [k \in 1..Len(hit) |->
        [title |-> {}, sourceIp |-> hit[k],
         confidence |-> BruteForceConfidence(Len(FromIp(L, failed, hit[k]))),
         relatedLogs |-> FromIp(L, failed, hit[k]),
         affectedAssets |-> {"Authentication System"}]]

detectSQLInjection(L, batch) ==
  LET hit == SelectSeq(batch, LAMBDA i : LET l == L[i] IN
               l.category \in {"application", "database"} /\ l.message \cap sqlPatterns # {})
  IN [k \in 1..Len(hit) |->
        [title |-> {}, sourceIp |-> L[hit[k]].sourceIp, confidence |-> 85,
         relatedLogs |-> <<hit[k]>>,
         affectedAssets |-> {"Database", "Web Application"}]]

(* ---------------------- IEEE 754 double arithmetic -------------------- *)
\* JavaScript numbers are IEEE 754 doubles.  A natural number beyond the model
\* checker's integers is a sequence of limbs below LimbBase, the least
\* significant first, the last one not 0; <<>> is 0.
LimbBase == 2^15

Limb(a, i) == IF i <= Len(a) THEN a[i] ELSE 0

Trim(a) ==
  IF \A i \in 1..Len(a) : a[i] = 0 THEN <<>>
  ELSE SubSeq(a, 1, CHOOSE i \in 1..Len(a) : a[i] # 0 /\ \A j \in (i + 1)..Len(a) : a[j] = 0)

Zeros(q) == [i \in 1..q |-> 0]

RECURSIVE AddLimbs(_, _, _, _), SubLimbs(_, _, _, _), ScaleLimbs(_, _, _, _),
          MulLimbs(_, _, _), DivLimbs(_, _, _, _), SqrtDigit(_, _, _, _, _),
          SqrtLimbs(_, _, _)

AddLimbs(a, b, i, c) ==
  IF i > Len(a) /\ i > Len(b) THEN (IF c = 0 THEN <<>> ELSE <<c>>)
  ELSE <<(Limb(a, i) + Limb(b, i) + c) % LimbBase>>
         \o AddLimbs(a, b, i + 1, (Limb(a, i) + Limb(b, i) + c) \div LimbBase)

BigAdd(a, b) == AddLimbs(a, b, 1, 0)

\* a - b for a >= b
SubLimbs(a, b, i, c) ==
  IF i > Len(a) THEN <<>>
  ELSE <<(a[i] - Limb(b, i) - c + LimbBase) % LimbBase>>
         \o SubLimbs(a, b, i + 1, IF a[i] - Limb(b, i) - c < 0 THEN 1 ELSE 0)

BigSub(a, b) == Trim(SubLimbs(a, b, 1, 0))

\* a * d for 0 < d <= LimbBase
ScaleLimbs(a, d, i, c) ==
  IF i > Len(a) THEN (IF c = 0 THEN <<>> ELSE <<c>>)
  ELSE <<(a[i] * d + c) % LimbBase>> \o ScaleLimbs(a, d, i + 1, (a[i] * d + c) \div LimbBase)

MulLimbs(a, b, j) ==
  IF j > Len(b) THEN <<>>
  ELSE BigAdd(IF b[j] = 0 THEN <<>> ELSE Zeros(j - 1) \o ScaleLimbs(a, b[j], 1, 0),
              MulLimbs(a, b, j + 1))

BigMul(a, b) == IF a = <<>> THEN <<>> ELSE MulLimbs(a, b, 1)

BigLess(a, b) ==
  IF Len(a) # Len(b) THEN Len(a) < Len(b)
  ELSE \E i \in 1..Len(a) : a[i] < b[i] /\ \A j \in (i + 1)..Len(a) : a[j] = b[j]

\* a * 2^k
BigShl(a, k) ==
  IF a = <<>> THEN <<>> ELSE Zeros(k \div 15) \o ScaleLimbs(a, 2^(k % 15), 1, 0)

\* The remainder of a[1..i] with r carried in from the limbs above, divided by
\* d < LimbBase, followed by the limbs of the quotient.
DivLimbs(a, d, i, r) ==
  IF i = 0 THEN <<r>>
  ELSE DivLimbs(a, d, i - 1, (r * LimbBase + a[i]) % d) \o <<(r * LimbBase + a[i]) \div d>>

\* a \div 2^k
BigShr(a, k) ==
  IF Len(a) <= k \div 15 THEN <<>>
  ELSE Trim(Tail(DivLimbs(SubSeq(a, (k \div 15) + 1, Len(a)), 2^(k % 15),
                          Len(a) - (k \div 15), 0)))

BitLength(a) ==
  IF a = <<>> THEN 0
  ELSE 15 * (Len(a) - 1)
         + (CHOOSE k \in 1..15 : 2^(k - 1) <= a[Len(a)] /\ a[Len(a)] < 2^k)

\* The limb at position i of the square root of N, whose limbs above i are in R:
\* the largest d with (R + d * LimbBase^(i-1))^2 <= N, bit after bit.
SqrtDigit(N, R, i, d, bit) ==
  IF bit < 0 THEN d
  ELSE IF BigLess(N, BigMul(Trim([R EXCEPT ![i] = d + 2^bit]),
                            Trim([R EXCEPT ![i] = d + 2^bit])))
  THEN SqrtDigit(N, R, i, d, bit - 1)
  ELSE SqrtDigit(N, R, i, d + 2^bit, bit - 1)

SqrtLimbs(N, R, i) ==
  IF i = 0 THEN Trim(R)
  ELSE SqrtLimbs(N, [R EXCEPT ![i] = SqrtDigit(N, R, i, 0, 14)], i - 1)

\* The integer part of the square root of N.
BigSqrt(N) == SqrtLimbs(N, Zeros((Len(N) + 1) \div 2), (Len(N) + 1) \div 2)

\* A double is (-1)^neg * m * 2^e with m = 0 or 2^52 <= m < 2^53; the values of
\* the anomaly rule are far from the subnormal numbers and from infinity.
DoubleZero == [neg |-> FALSE, m |-> <<>>, e |-> 0]

\* N, more than 53 bits long, rounded to 53 bits, ties to the even mantissa: q is
\* N without its k low bits.
RoundedUp(N, k, q) ==
  \/ BigLess(BigShl(<<1>>, k - 1), BigSub(N, BigShl(q, k)))
  \/ BigSub(N, BigShl(q, k)) = BigShl(<<1>>, k - 1) /\ q[1] % 2 = 1

Renormalized(neg, m, e) ==
  IF BitLength(m) > 53 THEN [neg |-> neg, m |-> BigShr(m, 1), e |-> e + 1]
  ELSE [neg |-> neg, m |-> m, e |-> e]

RoundedTo53(neg, N, e, k, q) ==
  Renormalized(neg, IF RoundedUp(N, k, q) THEN BigAdd(q, <<1>>) ELSE q, e + k)

RoundedOfLength(neg, N, e, len) ==
  IF len = 0 THEN DoubleZero
  ELSE IF len <= 53 THEN [neg |-> neg, m |-> BigShl(N, 53 - len), e |-> e - (53 - len)]
  ELSE RoundedTo53(neg, N, e, len - 53, BigShr(N, len - 53))

\* The double nearest to (-1)^neg * N * 2^e.
Rounded(neg, N, e) == RoundedOfLength(neg, N, e, BitLength(N))

\* The double of an integer 0 <= k < 2^30.
DoubleOfInt(k) == Rounded(FALSE, Trim(<<k % LimbBase, k \div LimbBase>>), 0)

\* The sum of (-1)^na * A * 2^e and (-1)^nb * B * 2^e.
RoundedSum(na, A, nb, B, e) ==
  IF na = nb THEN Rounded(na, BigAdd(A, B), e)
  ELSE IF BigLess(A, B) THEN Rounded(nb, BigSub(B, A), e)
  ELSE Rounded(na, BigSub(A, B), e)

DoubleAdd(x, y) ==
  IF x.m = <<>> THEN y
  ELSE IF y.m = <<>> THEN x
  ELSE RoundedSum(x.neg, BigShl(x.m, x.e - Min(x.e, y.e)),
                  y.neg, BigShl(y.m, y.e - Min(x.e, y.e)), Min(x.e, y.e))

DoubleSub(x, y) == DoubleAdd(x, [y EXCEPT !.neg = ~@])

DoubleMul(x, y) == Rounded(x.neg # y.neg, BigMul(x.m, y.m), x.e + y.e)

\* q and r are the quotient and the remainder of the division of N * 2^-e: a
\* remainder makes the quotient's last bit sticky.
RoundedQuotient(neg, q, r, e) ==
  Rounded(neg, BigAdd(ScaleLimbs(q, 2, 1, 0), IF r THEN <<1>> ELSE <<>>), e - 1)

DividedLimbs(neg, res, e) == RoundedQuotient(neg, Trim(Tail(res)), Head(res) # 0, e)

\* x / n for an integer 0 < n < LimbBase
DoubleDivInt(x, n) ==
  IF x.m = <<>> THEN DoubleZero
  ELSE DividedLimbs(x.neg, DivLimbs(Zeros(4) \o x.m, n, Len(x.m) + 4, 0), x.e - 60)

RootOf(N, R, e) == RoundedQuotient(FALSE, R, BigMul(R, R) # N, e)

ScaledRoot(N, e) == RootOf(N, BigSqrt(N), e)

\* Math.sqrt(x) for x >= 0: the mantissa is scaled by 2^60 or 2^61, leaving an
\* even exponent.
DoubleSqrt(x) ==
  IF x.m = <<>> THEN DoubleZero
  ELSE ScaledRoot(BigShl(x.m, 60 + (x.e % 2)), (x.e - 60 - (x.e % 2)) \div 2)

\* x < y for x, y >= 0
DoubleLess(x, y) ==
  BigLess(BigShl(x.m, x.e - Min(x.e, y.e)), BigShl(y.m, y.e - Min(x.e, y.e)))

\* Math.pow(x, 2): the rounded product of x with itself.
DoubleSquare(x) == DoubleMul(x, x)

\* The reduce of detectAnomalousTraffic that adds Math.pow(b - mean, 2) for the
\* counts from position k on to acc; the square is the rounded product.
RECURSIVE SquaredDeviations(_, _, _, _)
SquaredDeviations(counts, mean, k, acc) ==
  IF k > Len(counts) THEN acc
  ELSE SquaredDeviations(counts, mean, k + 1,
         DoubleAdd(acc, DoubleSquare(DoubleSub(DoubleOfInt(counts[k]), mean))))

\* mean + (anomalyThreshold * stdDev)
ThresholdFrom(counts, mean) ==
  DoubleAdd(mean,
    DoubleMul(DoubleOfInt(anomalyThreshold),
      DoubleSqrt(DoubleDivInt(SquaredDeviations(counts, mean, 1, DoubleZero), Len(counts)))))

\* The threshold of the counts, in the order of Object.values(ipCounts).
Threshold(counts) ==
  ThresholdFrom(counts, DoubleDivInt(DoubleOfInt(SumOver(counts, 1..Len(counts))), Len(counts)))

\* count > threshold
AboveThreshold(count, threshold) == DoubleLess(threshold, DoubleOfInt(count))

\* The addresses with count > threshold && count > 50.
Flagged(ips, cnt, threshold) ==
  SelectSeq(ips, LAMBDA ip : AboveThreshold(cnt[ip], threshold) /\ cnt[ip] > anomalyFloor)

\* min(90, 50 + (count - threshold) / threshold * 40), rounded down to a whole
\* percent with the square root taken as its floor.
AnomalyConfidence(count, n, S, Q) ==
  LET r == anomalyThreshold * ISqrt(n * Q - S * S)
  IN Min(90, 50 + ((40 * (n * count - S - r)) \div (S + r)))

detectAnomalousTraffic(L, batch) ==
  LET app == SelectSeq(batch, LAMBDA i : LET l == L[i] IN l.sourceIp # NoIp /\ l.category = "application")
      ips == IpsOf(L, app)
      cnt == [ip \in Range(ips) |-> Len(FromIp(L, app, ip))]
      n == Len(ips)
      S == SumOver(cnt, Range(ips))
      Q == SumOver([ip \in Range(ips) |-> cnt[ip] * cnt[ip]], Range(ips))
      hit == IF \A ip \in Range(ips) : cnt[ip] <= anomalyFloor THEN <<>>
             ELSE Flagged(ips, cnt, Threshold([k \in 1..n |-> cnt[ips[k]]]))
  IN [k \in 1..Len(hit) |->
        [title |-> {}, sourceIp |-> hit[k],
         confidence |-> AnomalyConfidence(cnt[hit[k]], n, S, Q),
         relatedLogs |-> <<>>,
         affectedAssets |-> {"Web Application"}]]

detectPrivilegeEscalation(L, batch) ==
  LET hit == SelectSeq(batch, LAMBDA i : LET l == L[i] IN
               l.category \in {"system", "security"} /\ l.message \cap privilegePatterns # {})
  IN [k \in 1..Len(hit) |->
        [title |-> {"privilege", "escalat"}, sourceIp |-> L[hit[k]].sourceIp,
         confidence |-> 75, relatedLogs |-> <<hit[k]>>,
         affectedAssets |-> {"System"}]]

detectDataExfiltration(L, batch) ==
  LET sized == SelectSeq(batch, LAMBDA i : LET l == L[i] IN l.size # 0 /\ l.sourceIp # NoIp)
      ips == IpsOf(L, sized)
      total == [ip \in Range(ips) |->
                  SumOver([i \in Range(sized) |-> L[i].size], Range(FromIp(L, sized, ip)))]
      hit == SelectSeq(ips, LAMBDA ip : total[ip] > dataTransferThreshold)
  IN [k \in 1..Len(hit) |->
        [title |-> {"data", "exfiltrat"}, sourceIp |-> hit[k], confidence |-> 70,
         relatedLogs |-> <<>>,
         affectedAssets |-> {"Data Storage", "Network"}]]

\* rule.condition(logs) of rule r.
Condition(r, L, batch) ==
  CASE r = 1 -> detectBruteForce(L, batch)
    [] r = 2 -> detectSQLInjection(L, batch)
    [] r = 3 -> detectAnomalousTraffic(L, batch)
    [] r = 4 -> detectPrivilegeEscalation(L, batch)
    [] r = 5 -> detectDataExfiltration(L, batch)

\* The alertData executeDetectionRule passes to createAlert for one detection.
alertData(detection, rule) ==
  [title |-> detection.title, sourceIp |-> detection.sourceIp,
   confidence |-> detection.confidence, relatedLogs |-> detection.relatedLogs,
   affectedAssets |-> detection.affectedAssets, relatedAlerts |-> <<>>,
   correlationId |-> NoCorrelation,
   type |-> rule.type, severity |-> rule.severity, detectionMethod |-> "signature"]

AllAlertData(detections, rule) ==
  [k \in 1..Len(detections) |-> alertData(detections[k], rule)]

\* The alertData of the detections of rule r, in the order they are handed over.
Detections(r, L, batch) == AllAlertData(Condition(r, L, batch), detectionRules[r])

(* --------------------------- alert store ------------------------------ *)
\* intrusionAlertSchema: the enums save() validates against.
AlertTypes ==
  {"brute_force", "sql_injection", "xss_attack", "ddos", "malware",
   "unauthorized_access", "data_exfiltration", "privilege_escalation", "anomaly",
   "policy_violation", "other"}
Severities == {"low", "medium", "high", "critical"}
Statuses == {"active", "investigating", "resolved", "false_positive"}
DetectionMethods == {"signature", "anomaly", "behavioral", "ml", "correlation"}

\* Document validation run by save().
Validates(doc) ==
  /\ doc.type \in AlertTypes
  /\ doc.severity \in Severities
  /\ doc.status \in Statuses
  /\ doc.detectionMethod \in DetectionMethods
  /\ doc.sourceIp \in IPs \cup {NoIp}
  /\ doc.confidence \in 0..100

severityWeight ==
  [sev \in Severities |->
     CASE sev = "low" -> 2 [] sev = "medium" -> 5 [] sev = "high" -> 8
       [] sev = "critical" -> 10]

\* riskScore (times 100) the pre('save') middleware computes:
\* Math.min(10, baseScore * (confidence / 100)).
RiskScore(severity, confidence) == Min(1000, severityWeight[severity] * confidence)

\* Mutant: the middleware leaves the document as it is.
PreSaveKeepsRiskScore(doc) == doc

\* The pre('save') middleware applied to a document.
PreSave(doc) == [doc EXCEPT !.riskScore = RiskScore(doc.severity, doc.confidence)]

\* new IntrusionAlert(data): schema defaults filled in, unknown paths dropped.
NewAlert(data, t) ==
  [title |-> data.title, type |-> data.type, severity |-> data.severity,
   status |-> "active", sourceIp |-> data.sourceIp,
   affectedAssets |-> data.affectedAssets, confidence |-> data.confidence,
   riskScore |-> 500, relatedLogs |-> data.relatedLogs,
   correlationId |-> data.correlationId, detectionMethod |-> data.detectionMethod,
   timeline |-> <<>>, notifications |-> <<>>, assignedTo |-> NoUser,
   evidence |-> 0, resolvedAt |-> NoTime, resolvedBy |-> NoUser, createdAt |-> t]

\* The in-memory document a query returned: its position in the collection and the
\* values save() later compares against to find the modified paths.
NoDoc == [idx |-> 0, confidence |-> 0, riskScore |-> 0, severity |-> "low", status |-> "active"]
Loaded(A, i) ==
  IF i = 0 THEN NoDoc
  ELSE [idx |-> i, confidence |-> A[i].confidence, riskScore |-> A[i].riskScore,
        severity |-> A[i].severity, status |-> A[i].status]

First(S) == IF S = {} THEN 0 ELSE CHOOSE i \in S : \A j \in S : i <= j

\* Mutant: the window test reversed ($lte for $gte).
FindSimilarOutsideWindow(A, data, t) ==
  First({i \in 1..Len(A) :
           /\ A[i].type = data.type
           /\ A[i].sourceIp = data.sourceIp
           /\ A[i].status \in {"active", "investigating"}
           /\ A[i].createdAt <= t - timeWindow})

\* IntrusionAlert.findOne of createAlert: the first alert of the same type and
\* sourceIp, still active or investigating, created inside the time window.
FindSimilar(A, data, t) ==
  First({i \in 1..Len(A) :
           /\ A[i].type = data.type
           /\ A[i].sourceIp = data.sourceIp
           /\ A[i].status \in {"active", "investigating"}
           /\ A[i].createdAt >= t - timeWindow})

\* createAlert's update of the existing alert followed by save(): save() writes the
\* paths modified since the document was loaded (confidence, riskScore) and pushes
\* the new relatedLogs.
SaveMerged(A, doc, data) ==
  LET conf == Max(doc.confidence, data.confidence)
      risk == RiskScore(doc.severity, conf)
  IN [A EXCEPT ![doc.idx] =
        [@ EXCEPT !.confidence = IF conf # doc.confidence THEN conf ELSE @,
                  !.riskScore = IF risk # doc.riskScore THEN risk ELSE @,
                  !.relatedLogs = @ \o data.relatedLogs]]

\* save() of a new document: validation, then pre('save'), then the insert.
SaveNew(A, doc) == Append(A, PreSave(doc))

(* ------------------------------ state --------------------------------- *)
VARIABLES
  now,          \* Date.now(), in ticks
  logs,         \* the Log collection, in insertion order (a log's id is its index)
  alerts,       \* the IntrusionAlert collection, in insertion order
  detEnabled,   \* detectionRules[r].enabled
  corrEnabled,  \* correlationRules[r].enabled
  det,          \* the runDetectionCycle invocations, one per trigger
  corr,         \* the runCorrelationCycle invocations, one per trigger
  faults,       \* repository failures injected so far
  produced,     \* every candidate a detection or correlation rule has returned so far
  req,          \* the alert API request in flight
  notifs,       \* every notification object queueNotification has built (id = index)
  queue,        \* notificationQueue: the ids of the objects the array holds
  proc,         \* the processNotificationQueue invocations, one per caller
  scan,         \* the checkEscalations invocation
  chanEnabled,  \* notificationChannels[c].enabled
  call,         \* the call of a function of the engines made on its own: its
                \* arguments and, once it has returned, its result
  detector      \* the intrusion detector's isRunning flag, its interval timers
                \* and its cron jobs

vars == <<now, logs, alerts, detEnabled, corrEnabled, det, corr, faults, produced, req,
          notifs, queue, proc, scan, chanEnabled, call, detector>>

\* The state of the notification service.
notifVars == <<notifs, queue, proc, scan, chanEnabled>>

\* No function has been called on its own.
NoCall == [fn |-> "none", done |-> FALSE]

\* The callbacks that start a cycle: the setInterval timer and the cron job.
Triggers == {"interval", "cron"}

\* The detector as its constructor leaves it.
\*   isRunning          this.isRunning
\*   detectionInterval  this.detectionInterval: the handle of the last setInterval
\*                      (0: null)
\*   timers             the handles of the interval timers that have not been cleared
\*   handles            how many interval timers have been created
\*   jobs               how many '*/2 * * * *' cron jobs have been scheduled
Constructed ==
  [isRunning |-> FALSE, detectionInterval |-> 0, timers |-> {}, handles |-> 0, jobs |-> 0]

\* monitorForIntrusions: setInterval, its handle kept in this.detectionInterval.
monitorForIntrusions(d) ==
  [d EXCEPT !.detectionInterval = d.handles + 1, !.timers = @ \cup {d.handles + 1},
            !.handles = @ + 1]

startDetection(d) ==
  IF d.isRunning THEN d ELSE monitorForIntrusions([d EXCEPT !.isRunning = TRUE])

\* Mutant: the interval timer is left running.
stopDetectionKeepsTimer(d) ==
  IF ~d.isRunning THEN d ELSE [d EXCEPT !.isRunning = FALSE]

\* clearInterval of a handle that was cleared before does nothing.
stopDetection(d) ==
  IF ~d.isRunning THEN d
  ELSE [d EXCEPT !.isRunning = FALSE,
                 !.timers = IF d.detectionInterval # 0 THEN @ \ {d.detectionInterval}
                            ELSE @]

\* schedulePeriodicDetection: one more cron job that runs detection cycles.
schedulePeriodicDetection(d) == [d EXCEPT !.jobs = @ + 1]

initialize(d) == schedulePeriodicDetection(startDetection(d))

\* The detector once the application has called initialize().
Initialized == initialize(Constructed)

\* The callback of trigger c exists and finds isRunning set.
Fires(c) ==
  /\ IF c = "interval" THEN detector.timers # {} ELSE detector.jobs > 0
  /\ detector.isRunning

\* One invocation of runDetectionCycle.
\*   pc        where the invocation is suspended (idle: not running)
\*   outcome   how the last finished invocation ended
\*   batch     recentLogs, the ids Log.find returned
\*   rule      the rule whose detections are being stored
\*   cands     its detections not yet handed to createAlert (the head is next)
\*   existing  existingAlert, as loaded by findOne
\*   threw     rules whose executeDetectionRule caught an exception
\*   evaluated rules whose condition was evaluated over batch
\*   failed    whether a repository call of this invocation failed
\*   marked    the ids this invocation marked processed
\*   found     the detections its rules returned
DetIdle ==
  [pc |-> "idle", outcome |-> "none", batch |-> <<>>, rule |-> 0, cands |-> <<>>,
   existing |-> NoDoc, threw |-> {}, evaluated |-> {}, failed |-> FALSE,
   marked |-> {}, found |-> {}]

\* What is remembered of a candidate a rule returned.
Candidate(data) ==
  [type |-> data.type, sourceIp |-> data.sourceIp,
   correlationId |-> data.correlationId, confidence |-> data.confidence]

\* Ascending ids, stably sorted by timestamp descending: .sort({ timestamp: -1 }).
SortNewestFirst(L, S) ==
  [k \in 1..Cardinality(S) |->
     CHOOSE i \in S :
       Cardinality({j \in S : \/ L[j].timestamp > L[i].timestamp
                              \/ L[j].timestamp = L[i].timestamp /\ j < i}) = k - 1]

\* Log.find of runDetectionCycle: unprocessed logs not older than the time window.
RecentUnprocessed(L, t) ==
  SortNewestFirst(L, {i \in 1..Len(L) :
                        L[i].timestamp >= t - timeWindow /\ ~L[i].processed})

\* Rule r has been evaluated and returned found.
Evaluated(d, r, found) ==
  [d EXCEPT !.evaluated = @ \cup {r},
            !.found = @ \cup {Candidate(x) : x \in Range(found)}]

\* The for-loop of runDetectionCycle from rule r on, up to the next repository
\* call: rules are evaluated in memory until one returns detections (the first is
\* then handed to createAlert) or the loop ends (the logs are then marked).
RECURSIVE RunRules(_, _, _, _), RuleRan(_, _, _, _, _)
RunRules(d, r, L, en) ==
  IF r > Len(detectionRules)
  THEN [d EXCEPT !.pc = "mark", !.rule = 0, !.cands = <<>>, !.existing = NoDoc]
  ELSE IF ~en[r] THEN RunRules(d, r + 1, L, en)
  ELSE RuleRan(d, r, L, en, Detections(r, L, d.batch))

\* executeDetectionRule of rule r once rule.condition has returned found.
RuleRan(d, r, L, en, found) ==
  IF found = <<>> THEN RunRules(Evaluated(d, r, found), r + 1, L, en)
  ELSE [Evaluated(d, r, found) EXCEPT !.pc = "findOne", !.rule = r, !.cands = found,
                                      !.existing = NoDoc]

\* Mutant: the exception of a rule ends the cycle.
RuleCaughtEndsCycle(d, L, en) ==
  [d EXCEPT !.pc = "idle", !.outcome = "aborted", !.threw = @ \cup {d.rule}]

\* The catch of executeDetectionRule: the rule's remaining detections are dropped
\* and the cycle goes on with the next rule.
RuleCaught(d, L, en) ==
  RunRules([d EXCEPT !.threw = @ \cup {d.rule}], d.rule + 1, L, en)

\* createAlert returned: the next detection of the rule, or the next rule.
AlertDone(d, L, en) ==
  IF Len(d.cands) > 1
  THEN [d EXCEPT !.pc = "findOne", !.cands = Tail(@), !.existing = NoDoc]
  ELSE RunRules(d, d.rule + 1, L, en)

(* --------------------------- environment ------------------------------ *)
\* Ingestion stores a log (timestamp: Date.now).
Store(tpl, ip, max) ==
  /\ Len(logs) < max
  /\ logs' = Append(logs, MkLog(tpl, ip, now))
  /\ UNCHANGED <<now, alerts, detEnabled, corrEnabled, det, corr, faults, produced, req,
                 notifVars, call, detector>>

\* Five minutes pass.  A cycle takes far less than a tick: none is in flight.
Tick ==
  /\ now < MaxTime
  /\ \A c \in Triggers : det[c].pc = "idle" /\ corr[c].pc = "idle"
  /\ req.pc = "idle"
  /\ now' = now + 1
  /\ UNCHANGED <<logs, alerts, detEnabled, corrEnabled, det, corr, faults, produced, req,
                 notifVars, call, detector>>

(* ------------------------- runDetectionCycle -------------------------- *)
\* The trigger fires; Log.find returns; rules run up to the first findOne.
DetFetch(c) ==
  /\ det[c].pc = "idle"
  /\ Fires(c)
  /\ det' = [det EXCEPT ![c] =
       RunRules([DetIdle EXCEPT !.batch = RecentUnprocessed(logs, now)],
                1, logs, detEnabled)]
  /\ produced' = produced \cup det'[c].found
  /\ UNCHANGED <<now, logs, alerts, detEnabled, corrEnabled, corr, faults, req,
                 notifVars, call, detector>>

\* Log.find rejects: the outer catch logs it and the cycle ends.
DetFetchFails(c) ==
  /\ det[c].pc = "idle"
  /\ Fires(c)
  /\ faults < MaxFaults
  /\ faults' = faults + 1
  /\ det' = [det EXCEPT ![c] = [DetIdle EXCEPT !.outcome = "aborted", !.failed = TRUE]]
  /\ UNCHANGED <<now, logs, alerts, detEnabled, corrEnabled, corr, produced, req,
                 notifVars, call, detector>>

\* createAlert: IntrusionAlert.findOne returns.
DetFindOne(c) ==
  /\ det[c].pc = "findOne"
  /\ det' = [det EXCEPT ![c] =
       [@ EXCEPT !.pc = "save",
                 !.existing = Loaded(alerts, FindSimilar(alerts, Head(det[c].cands), now))]]
  /\ UNCHANGED <<now, logs, alerts, detEnabled, corrEnabled, corr, faults, produced, req,
                 notifVars, call, detector>>

\* createAlert: findOne rejects; createAlert rethrows into executeDetectionRule.
DetFindOneFails(c) ==
  /\ det[c].pc = "findOne"
  /\ faults < MaxFaults
  /\ faults' = faults + 1
  /\ det' = [det EXCEPT ![c] = RuleCaught([@ EXCEPT !.failed = TRUE], logs, detEnabled)]
  /\ produced' = produced \cup det'[c].found
  /\ UNCHANGED <<now, logs, alerts, detEnabled, corrEnabled, corr, req, notifVars, call, detector>>

\* createAlert: the existing alert is updated and saved, or a new one is saved.
DetSave(c) ==
  LET d == det[c]
      data == Head(d.cands)
      doc == NewAlert(data, now)
  IN /\ d.pc = "save"
     /\ IF d.existing.idx # 0
        THEN /\ alerts' = SaveMerged(alerts, d.existing, data)
             /\ det' = [det EXCEPT ![c] = AlertDone(d, logs, detEnabled)]
        ELSE IF Validates(doc)
        THEN /\ alerts' = SaveNew(alerts, doc)
             /\ det' = [det EXCEPT ![c] = AlertDone(d, logs, detEnabled)]
        ELSE /\ alerts' = alerts
             /\ det' = [det EXCEPT ![c] = RuleCaught(d, logs, detEnabled)]
     /\ produced' = produced \cup det'[c].found
     /\ UNCHANGED <<now, logs, detEnabled, corrEnabled, corr, faults, req, notifVars,
                    call, detector>>

\* createAlert: save() rejects; createAlert rethrows into executeDetectionRule.
DetSaveFails(c) ==
  /\ det[c].pc = "save"
  /\ faults < MaxFaults
  /\ faults' = faults + 1
  /\ det' = [det EXCEPT ![c] = RuleCaught([@ EXCEPT !.failed = TRUE], logs, detEnabled)]
  /\ produced' = produced \cup det'[c].found
  /\ UNCHANGED <<now, logs, alerts, detEnabled, corrEnabled, corr, req, notifVars, call, detector>>

\* Mutant: only the first id of the batch reaches the update's filter.
MarkProcessedFirstOnly(L, batch) ==
  [i \in 1..Len(L) |->
     IF batch # <<>> /\ i = Head(batch) THEN [L[i] EXCEPT !.processed = TRUE] ELSE L[i]]

\* Mutant: the write selects the unprocessed logs again instead of the fetched ids.
MarkProcessedUnprocessed(L, batch) ==
  [i \in 1..Len(L) |-> IF batch # <<>> THEN [L[i] EXCEPT !.processed = TRUE] ELSE L[i]]

\* Log.updateMany({ _id: { $in: logIds } }, { processed: true })
MarkProcessed(L, batch) ==
  [i \in 1..Len(L) |->
     IF i \in Range(batch) THEN [L[i] EXCEPT !.processed = TRUE] ELSE L[i]]

\* The logs are marked processed (the write is skipped for an empty batch).
DetMark(c) ==
  /\ det[c].pc = "mark"
  /\ logs' = MarkProcessed(logs, det[c].batch)
  /\ det' = [det EXCEPT ![c] =
       [@ EXCEPT !.pc = "idle", !.outcome = "completed", !.marked = Range(det[c].batch)]]
  /\ UNCHANGED <<now, alerts, detEnabled, corrEnabled, corr, faults, produced, req,
                 notifVars, call, detector>>

\* Log.updateMany rejects: the outer catch logs it and the cycle ends.
DetMarkFails(c) ==
  /\ det[c].pc = "mark"
  /\ det[c].batch # <<>>
  /\ faults < MaxFaults
  /\ faults' = faults + 1
  /\ det' = [det EXCEPT ![c] = [@ EXCEPT !.pc = "idle", !.outcome = "aborted", !.failed = TRUE]]
  /\ UNCHANGED <<now, logs, alerts, detEnabled, corrEnabled, corr, produced, req,
                 notifVars, call, detector>>

(* ---------------------- correlation rule engine ----------------------- *)
\* this.correlationRules, in evaluation order (timeWindow in ticks).
correlationRules ==
  << [name |-> "Multi-Stage Attack Detection", type |-> "attack_chain", timeWindow |-> 12],
     [name |-> "Coordinated Attack Detection", type |-> "coordinated_attack", timeWindow |-> 6],
     [name |-> "Lateral Movement Detection", type |-> "lateral_movement", timeWindow |-> 24],
     [name |-> "Data Breach Pattern", type |-> "data_breach", timeWindow |-> 12] >>

\* Math.max(...this.correlationRules.map(r => r.timeWindow))
CorrelationWindow ==
  LET W == {correlationRules[r].timeWindow : r \in 1..Len(correlationRules)}
  IN CHOOSE m \in W : \A w \in W : w <= m

\* sourceIp.replace(/\./g, '')
StripDots(ip) ==
  CASE ip = "203.0.113.10" -> "203011310"
    [] ip = "198.51.100.7" -> "198511007"
    [] ip = "192.0.2.5" -> "192025"
    [] OTHER -> ip

\* Array.prototype.sort by time ascending (stable) over events [time, text].
RECURSIVE SortByTime(_)
SortByTime(ev) ==
  IF ev = <<>> THEN <<>>
  ELSE LET rest == SortByTime(SubSeq(ev, 1, Len(ev) - 1))
           x == ev[Len(ev)]
           k == Cardinality({i \in 1..Len(rest) : rest[i].time <= x.time})
       IN SubSeq(rest, 1, k) \o <<x>> \o SubSeq(rest, k + 1, Len(rest))

\* The stage one event indicates: the first branch of the if/else-if chain its
\* message (or title) satisfies, or none.
StageOf(text) ==
  IF text \cap {"scan", "probe"} # {} THEN <<"reconnaissance">>
  ELSE IF text \cap {"login", "access"} # {} THEN <<"initial_access">>
  ELSE IF text \cap {"privilege", "escalat"} # {} THEN <<"privilege_escalation">>
  ELSE IF text \cap {"lateral", "movement"} # {} THEN <<"lateral_movement">>
  ELSE IF text \cap {"data", "exfiltrat"} # {} THEN <<"data_exfiltration">>
  ELSE <<>>

\* Mutant: a stage is pushed for every event that indicates it.
identifyAttackStagesRepeated(L, A, events) ==
  LET allEvents ==
        [k \in 1..Len(events.logs) |->
           [time |-> L[events.logs[k]].timestamp, text |-> L[events.logs[k]].message]]
        \o [k \in 1..Len(events.alerts) |->
           [time |-> A[events.alerts[k]].createdAt, text |-> A[events.alerts[k]].title]]
      sorted == SortByTime(allEvents)
  IN Concat([k \in 1..Len(sorted) |-> StageOf(sorted[k].text)])

\* events = [logs, alerts]: ids of the logs and alerts of one sourceIp.
identifyAttackStages(L, A, events) ==
  LET allEvents ==
        [k \in 1..Len(events.logs) |->
           [time |-> L[events.logs[k]].timestamp, text |-> L[events.logs[k]].message]]
        \o [k \in 1..Len(events.alerts) |->
           [time |-> A[events.alerts[k]].createdAt, text |-> A[events.alerts[k]].title]]
      sorted == SortByTime(allEvents)
  IN FirstSeen(Concat([k \in 1..Len(sorted) |-> StageOf(sorted[k].text)]))

extractAffectedAssets(L, A, events) ==
  {L[i].source : i \in Range(events.logs)}
    \cup UNION {A[i].affectedAssets : i \in Range(events.alerts)}

\* lg, al: the ids of recentLogs and recentAlerts; t: Date.now().
detectAttackChain(L, A, lg, al, t) ==
  LET lgIp == SelectSeq(lg, LAMBDA i : L[i].sourceIp # NoIp)
      alIp == SelectSeq(al, LAMBDA i : A[i].sourceIp # NoIp)
      ips == FirstSeen([k \in 1..Len(lgIp) |-> L[lgIp[k]].sourceIp]
                         \o [k \in 1..Len(alIp) |-> A[alIp[k]].sourceIp])
      eventsByIp(ip) == [logs |-> FromIp(L, lgIp, ip),
                         alerts |-> SelectSeq(alIp, LAMBDA i : A[i].sourceIp = ip)]
      stages(ip) == identifyAttackStages(L, A, eventsByIp(ip))
      hit == SelectSeq(ips, LAMBDA ip : Len(stages(ip)) >= chainStages)
  IN [k \in 1..Len(hit) |->
        [title |-> {}, sourceIp |-> hit[k],
         confidence |-> Min(95, 60 + (Len(stages(hit[k])) * 10)),
         relatedLogs |-> eventsByIp(hit[k]).logs,
         relatedAlerts |-> eventsByIp(hit[k]).alerts,
         affectedAssets |-> extractAffectedAssets(L, A, eventsByIp(hit[k])),
         correlationId |-> <<"CHAIN", t, StripDots(hit[k])>>]]

\* The words the stage test looks for in the (lower-cased) title
\* "Coordinated <TYPE> Attack Detected".
CoordinatedTitle(type) ==
  CASE type = "privilege_escalation" -> {"privilege", "escalat"}
    [] type = "data_exfiltration" -> {"data", "exfiltrat"}
    [] type = "unauthorized_access" -> {"access"}
    [] OTHER -> {}

detectCoordinatedAttack(L, A, lg, al, t) ==
  LET keyOf(i) == <<A[i].type, A[i].createdAt \div bucketTicks>>
      keys == FirstSeen([k \in 1..Len(al) |-> keyOf(al[k])])
      alertGroup(key) == SelectSeq(al, LAMBDA i : keyOf(i) = key)
      uniqueIps(key) == {A[i].sourceIp : i \in Range(alertGroup(key))} \ {NoIp}
      hit == SelectSeq(keys, LAMBDA key : Cardinality(uniqueIps(key)) >= coordinatedIps)
  IN [k \in 1..Len(hit) |->
        [title |-> CoordinatedTitle(hit[k][1]), sourceIp |-> NoIp,
         confidence |-> Min(90, 50 + (Cardinality(uniqueIps(hit[k])) * 10)),
         relatedLogs |-> <<>>,
         relatedAlerts |-> alertGroup(hit[k]),
         affectedAssets |-> UNION {A[i].affectedAssets : i \in Range(alertGroup(hit[k]))},
         correlationId |-> <<"COORD", t, hit[k][1]>>]]

detectLateralMovement(L, A, lg, al, t) ==
  LET auth == SelectSeq(lg, LAMBDA i :
                L[i].category = "security" /\ L[i].sourceIp # NoIp /\ L[i].user # NoUser)
      keyOf(i) == <<L[i].user, L[i].sourceIp>>
      keys == FirstSeen([k \in 1..Len(auth) |-> keyOf(auth[k])])
      events(key) == SelectSeq(auth, LAMBDA i : keyOf(i) = key)
      systems(key) == {L[i].source : i \in Range(events(key))}
      hit == SelectSeq(keys, LAMBDA key : Cardinality(systems(key)) >= lateralSystems)
  IN [k \in 1..Len(hit) |->
        [title |-> {"lateral", "movement"}, sourceIp |-> hit[k][2],
         confidence |-> Min(85, 40 + (Cardinality(systems(hit[k])) * 15)),
         relatedLogs |-> events(hit[k]),
         relatedAlerts |-> <<>>,
         affectedAssets |-> systems(hit[k]),
         correlationId |-> <<"LATERAL", t, hit[k][1]>>]]

breachWords == {"database", "file", "download", "export", "backup"}

\* Mutant: a volume of exactly 50 MiB is high.
detectDataBreachPatternFrom50(L, A, lg, al, t) ==
  LET breachEvents == SelectSeq(lg, LAMBDA i : L[i].message \cap breachWords # {})
      withIp == SelectSeq(breachEvents, LAMBDA i : L[i].sourceIp # NoIp)
      ips == IpsOf(L, withIp)
      events(ip) == FromIp(L, withIp, ip)
      dataVolume(ip) == SumOver([i \in Range(withIp) |-> L[i].size], Range(events(ip)))
      hasHighVolume(ip) == dataVolume(ip) >= breachVolume
      hasMultipleAccess(ip) == Len(events(ip)) >= breachAccesses
      hit == SelectSeq(ips, LAMBDA ip : hasHighVolume(ip) \/ hasMultipleAccess(ip))
  IN [k \in 1..Len(hit) |->
        [title |-> {"data"}, sourceIp |-> hit[k],
         confidence |-> IF hasHighVolume(hit[k]) /\ hasMultipleAccess(hit[k]) THEN 80 ELSE 60,
         relatedLogs |-> events(hit[k]),
         relatedAlerts |-> <<>>,
         affectedAssets |-> {"Database", "File System"},
         correlationId |-> <<"BREACH", t, StripDots(hit[k])>>]]

detectDataBreachPattern(L, A, lg, al, t) ==
  LET breachEvents == SelectSeq(lg, LAMBDA i : L[i].message \cap breachWords # {})
      withIp == SelectSeq(breachEvents, LAMBDA i : L[i].sourceIp # NoIp)
      ips == IpsOf(L, withIp)
      events(ip) == FromIp(L, withIp, ip)
      dataVolume(ip) == SumOver([i \in Range(withIp) |-> L[i].size], Range(events(ip)))
      hasHighVolume(ip) == dataVolume(ip) > breachVolume
      hasMultipleAccess(ip) == Len(events(ip)) >= breachAccesses
      hit == SelectSeq(ips, LAMBDA ip : hasHighVolume(ip) \/ hasMultipleAccess(ip))
  IN [k \in 1..Len(hit) |->
        [title |-> {"data"}, sourceIp |-> hit[k],
         confidence |-> IF hasHighVolume(hit[k]) /\ hasMultipleAccess(hit[k]) THEN 80 ELSE 60,
         relatedLogs |-> events(hit[k]),
         relatedAlerts |-> <<>>,
         affectedAssets |-> {"Database", "File System"},
         correlationId |-> <<"BREACH", t, StripDots(hit[k])>>]]

\* Mutant: a confidence of exactly 80 is not enough for critical.
calculateCorrelationSeverityAbove80(correlationData) ==
  LET confidence == IF correlationData.confidence = 0 THEN 50
                    ELSE correlationData.confidence
      assetCount == Cardinality(correlationData.affectedAssets)
  IN IF confidence > 80 /\ assetCount >= 3 THEN "critical"
     ELSE IF confidence >= 70 \/ assetCount >= 2 THEN "high"
     ELSE IF confidence >= 60 THEN "medium"
     ELSE "low"

calculateCorrelationSeverity(correlationData) ==
  LET confidence == IF correlationData.confidence = 0 THEN 50
                    ELSE correlationData.confidence
      assetCount == Cardinality(correlationData.affectedAssets)
  IN IF confidence >= 80 /\ assetCount >= 3 THEN "critical"
     ELSE IF confidence >= 70 \/ assetCount >= 2 THEN "high"
     ELSE IF confidence >= 60 THEN "medium"
     ELSE "low"

\* rule.condition(logs, alerts, rule.timeWindow) of correlation rule r; the rules
\* do not use the timeWindow argument.
CorrelationCondition(r, L, A, lg, al, t) ==
  CASE r = 1 -> detectAttackChain(L, A, lg, al, t)
    [] r = 2 -> detectCoordinatedAttack(L, A, lg, al, t)
    [] r = 3 -> detectLateralMovement(L, A, lg, al, t)
    [] r = 4 -> detectDataBreachPattern(L, A, lg, al, t)

\* The document createCorrelatedAlert builds for one correlation.
correlatedAlertData(correlationData, rule) ==
  [title |-> correlationData.title, sourceIp |-> correlationData.sourceIp,
   confidence |-> correlationData.confidence,
   relatedLogs |-> correlationData.relatedLogs,
   affectedAssets |-> correlationData.affectedAssets,
   relatedAlerts |-> correlationData.relatedAlerts,
   correlationId |-> correlationData.correlationId,
   type |-> rule.type,
   severity |-> calculateCorrelationSeverity(correlationData),
   detectionMethod |-> "correlation"]

AllCorrelatedAlertData(correlations, rule) ==
  [k \in 1..Len(correlations) |-> correlatedAlertData(correlations[k], rule)]

\* The documents of the correlations of rule r, in the order they are handed over.
Correlations(r, L, A, lg, al, t) ==
  AllCorrelatedAlertData(CorrelationCondition(r, L, A, lg, al, t), correlationRules[r])

\* IntrusionAlert.findOne of createCorrelatedAlert.
FindCorrelated(A, data) ==
  First({i \in 1..Len(A) :
           /\ A[i].correlationId = data.correlationId
           /\ A[i].status \in {"active", "investigating"}})

(* ------------------------ runCorrelationCycle ------------------------- *)
\* One invocation of runCorrelationCycle.
\*   logs, alerts  recentLogs and recentAlerts, the ids the two queries returned
\*   the other fields are those of a detection cycle
CorrIdle ==
  [pc |-> "idle", outcome |-> "none", logs |-> <<>>, alerts |-> <<>>, rule |-> 0,
   cands |-> <<>>, threw |-> {}, evaluated |-> {}, failed |-> FALSE, found |-> {}]

RECURSIVE SortNewestCreated(_, _)
SortNewestCreated(A, S) ==
  IF S = {} THEN <<>>
  ELSE LET x == CHOOSE i \in S :
                  \A j \in S : \/ A[i].createdAt > A[j].createdAt
                               \/ A[i].createdAt = A[j].createdAt /\ i <= j
       IN <<x>> \o SortNewestCreated(A, S \ {x})

\* Mutant: the correlation fetch skips processed logs, as the detection fetch does.
RecentLogsUnprocessed(L, t) ==
  SortNewestFirst(L, {i \in 1..Len(L) : L[i].timestamp >= t - CorrelationWindow
                                          /\ ~L[i].processed})

\* Log.find of runCorrelationCycle: the logs of the longest rule window.
RecentLogs(L, t) ==
  SortNewestFirst(L, {i \in 1..Len(L) : L[i].timestamp >= t - CorrelationWindow})

\* IntrusionAlert.find of runCorrelationCycle.
RecentAlerts(A, t) ==
  SortNewestCreated(A, {i \in 1..Len(A) : A[i].createdAt >= t - CorrelationWindow})

\* The for-loop of runCorrelationCycle from rule r on, up to the next repository
\* call or to the end of the cycle.  No operation modelled here changes the fields
\* the rules read (sourceIp, message, title, timestamps, type, source,
\* affectedAssets), so the fetched documents are read through their ids.
RECURSIVE RunCorrelationRules(_, _, _, _, _, _), CorrelationRuleRan(_, _, _, _, _, _, _)
RunCorrelationRules(d, r, L, A, en, t) ==
  IF r > Len(correlationRules)
  THEN [d EXCEPT !.pc = "idle", !.outcome = "completed", !.rule = 0, !.cands = <<>>]
  ELSE IF ~en[r] THEN RunCorrelationRules(d, r + 1, L, A, en, t)
  ELSE CorrelationRuleRan(d, r, L, A, en, t, Correlations(r, L, A, d.logs, d.alerts, t))

\* executeCorrelationRule of rule r once rule.condition has returned found.
CorrelationRuleRan(d, r, L, A, en, t, found) ==
  IF found = <<>> THEN RunCorrelationRules(Evaluated(d, r, found), r + 1, L, A, en, t)
  ELSE [Evaluated(d, r, found) EXCEPT !.pc = "findOne", !.rule = r, !.cands = found]

\* The catch of executeCorrelationRule.
CorrelationRuleCaught(d, L, A, en, t) ==
  RunCorrelationRules([d EXCEPT !.threw = @ \cup {d.rule}], d.rule + 1, L, A, en, t)

\* createCorrelatedAlert returned: the next correlation of the rule, or the next
\* rule.
CorrelatedAlertDone(d, L, A, en, t) ==
  IF Len(d.cands) > 1
  THEN [d EXCEPT !.pc = "findOne", !.cands = Tail(@)]
  ELSE RunCorrelationRules(d, d.rule + 1, L, A, en, t)

\* The trigger fires; Log.find returns.
CorrFetchLogs(c) ==
  /\ corr[c].pc = "idle"
  /\ corr' = [corr EXCEPT ![c] =
       [CorrIdle EXCEPT !.pc = "findAlerts", !.logs = RecentLogs(logs, now)]]
  /\ UNCHANGED <<now, logs, alerts, detEnabled, corrEnabled, det, faults, produced, req,
                 notifVars, call, detector>>

\* IntrusionAlert.find returns; rules run up to the first findOne.
CorrFetchAlerts(c) ==
  /\ corr[c].pc = "findAlerts"
  /\ corr' = [corr EXCEPT ![c] =
       RunCorrelationRules([@ EXCEPT !.alerts = RecentAlerts(alerts, now)],
                           1, logs, alerts, corrEnabled, now)]
  /\ produced' = produced \cup corr'[c].found
  /\ UNCHANGED <<now, logs, alerts, detEnabled, corrEnabled, det, faults, req, notifVars,
                 call, detector>>

\* Log.find (as the trigger fires) or IntrusionAlert.find rejects: the outer
\* catch logs it and the cycle ends.
CorrFetchFails(c) ==
  /\ corr[c].pc \in {"idle", "findAlerts"}
  /\ faults < MaxFaults
  /\ faults' = faults + 1
  /\ corr' = [corr EXCEPT ![c] =
       [(IF @.pc = "idle" THEN CorrIdle ELSE @)
          EXCEPT !.pc = "idle", !.outcome = "aborted", !.failed = TRUE]]
  /\ UNCHANGED <<now, logs, alerts, detEnabled, corrEnabled, det, produced, req,
                 notifVars, call, detector>>

\* createCorrelatedAlert: findOne returns; an existing alert is returned as it is.
CorrFindOne(c) ==
  LET d == corr[c]
  IN /\ d.pc = "findOne"
     /\ corr' = [corr EXCEPT ![c] =
          IF FindCorrelated(alerts, Head(d.cands)) # 0
          THEN CorrelatedAlertDone(d, logs, alerts, corrEnabled, now)
          ELSE [d EXCEPT !.pc = "save"]]
     /\ produced' = produced \cup corr'[c].found
     /\ UNCHANGED <<now, logs, alerts, detEnabled, corrEnabled, det, faults, req,
                    notifVars, call, detector>>

\* createCorrelatedAlert: findOne rejects; rethrown into executeCorrelationRule.
CorrFindOneFails(c) ==
  /\ corr[c].pc = "findOne"
  /\ faults < MaxFaults
  /\ faults' = faults + 1
  /\ corr' = [corr EXCEPT ![c] =
       CorrelationRuleCaught([@ EXCEPT !.failed = TRUE], logs, alerts, corrEnabled, now)]
  /\ produced' = produced \cup corr'[c].found
  /\ UNCHANGED <<now, logs, alerts, detEnabled, corrEnabled, det, req, notifVars, call, detector>>

\* createCorrelatedAlert: save() of the new alert; a document that does not
\* validate makes save() reject, which is rethrown into executeCorrelationRule.
CorrSave(c) ==
  LET d == corr[c]
      doc == NewAlert(Head(d.cands), now)
  IN /\ d.pc = "save"
     /\ IF Validates(doc)
        THEN /\ alerts' = SaveNew(alerts, doc)
             /\ corr' = [corr EXCEPT ![c] =
                  CorrelatedAlertDone(d, logs, alerts', corrEnabled, now)]
        ELSE /\ alerts' = alerts
             /\ corr' = [corr EXCEPT ![c] =
                  CorrelationRuleCaught(d, logs, alerts, corrEnabled, now)]
     /\ produced' = produced \cup corr'[c].found
     /\ UNCHANGED <<now, logs, detEnabled, corrEnabled, det, faults, req, notifVars,
                    call, detector>>

\* createCorrelatedAlert: save() rejects for a repository failure.
CorrSaveFails(c) ==
  /\ corr[c].pc = "save"
  /\ faults < MaxFaults
  /\ faults' = faults + 1
  /\ corr' = [corr EXCEPT ![c] =
       CorrelationRuleCaught([@ EXCEPT !.failed = TRUE], logs, alerts, corrEnabled, now)]
  /\ produced' = produced \cup corr'[c].found
  /\ UNCHANGED <<now, logs, alerts, detEnabled, corrEnabled, det, req, notifVars, call, detector>>

(* -------------------------- alert lifecycle --------------------------- *)
\* No alert API request in flight.
ReqIdle == [pc |-> "idle", op |-> "none", arg |-> "", doc |-> NoDoc]

\* The lifecycle requests: PUT /:id/status, PUT /:id/assign, POST /:id/evidence.
ReqOps ==
  {[op |-> "updateStatus", arg |-> s] : s \in {"investigating", "resolved"}}
    \cup {[op |-> "assignTo", arg |-> u] : u \in Users}
    \cup {[op |-> "addEvidence", arg |-> "log"]}

\* The bodies POST /api/alerts is called with: the fields an analyst supplies, of
\* an alert no rule has raised yet.
PostBodies ==
  {[title |-> {}, type |-> "sql_injection", severity |-> b[1],
    sourceIp |-> "203.0.113.10", affectedAssets |-> {}, confidence |-> b[2],
    relatedLogs |-> <<>>, correlationId |-> NoCorrelation,
    detectionMethod |-> "signature"] :
     b \in {<<"low", 50>>, <<"critical", 100>>}}

\* POST /api/alerts: new IntrusionAlert(req.body) and save().
PostAlert(body, max) ==
  /\ Len(alerts) < max
  /\ Validates(NewAlert(body, now))
  /\ alerts' = SaveNew(alerts, NewAlert(body, now))
  /\ UNCHANGED <<now, logs, detEnabled, corrEnabled, det, corr, faults, produced, req,
                 notifVars, call, detector>>

\* A lifecycle request arrives; IntrusionAlert.findById returns the alert.
ReqLoad(i, r) ==
  /\ req.pc = "idle"
  /\ i \in 1..Len(alerts)
  /\ Len(alerts[i].timeline) < MaxTimeline
  /\ req' = [pc |-> "loaded", op |-> r.op, arg |-> r.arg, doc |-> Loaded(alerts, i)]
  /\ UNCHANGED <<now, logs, alerts, detEnabled, corrEnabled, det, corr, faults, produced,
                 notifVars, call, detector>>

\* A timeline entry: its event and what its details say.
TimelineEntry(event, details) == [event |-> event, details |-> details]

\* `Status changed from ${oldStatus} to ${newStatus}`
StatusChanged(oldStatus, newStatus) ==
  TimelineEntry("Status Changed", <<"from", oldStatus, "to", newStatus>>)

\* Mutant: the entry is put in front of the timeline.
updateStatusUnshifts(A, doc, newStatus, t) ==
  LET risk == PreSave(doc).riskScore
  IN [A EXCEPT ![doc.idx] =
        [@ EXCEPT !.status = IF newStatus # doc.status THEN newStatus ELSE @,
                  !.timeline = <<StatusChanged(doc.status, newStatus)>> \o @,
                  !.resolvedAt = IF newStatus = "resolved" THEN t ELSE @,
                  !.resolvedBy = IF newStatus = "resolved" THEN "u1" ELSE @,
                  !.riskScore = IF risk # doc.riskScore THEN risk ELSE @]]

\* schema.methods.updateStatus followed by the write of save(): pre('save') has
\* recomputed riskScore on the loaded document; save() writes the paths whose value
\* differs from the loaded one and pushes the timeline entry.
updateStatus(A, doc, newStatus, t) ==
  LET risk == PreSave(doc).riskScore
  IN [A EXCEPT ![doc.idx] =
        [@ EXCEPT !.status = IF newStatus # doc.status THEN newStatus ELSE @,
                  !.timeline = Append(@, StatusChanged(doc.status, newStatus)),
                  !.resolvedAt = IF newStatus = "resolved" THEN t ELSE @,
                  !.resolvedBy = IF newStatus = "resolved" THEN "u1" ELSE @,
                  !.riskScore = IF risk # doc.riskScore THEN risk ELSE @]]

\* schema.methods.assignTo followed by the write of save().
assignTo(A, doc, userId) ==
  LET risk == PreSave(doc).riskScore
  IN [A EXCEPT ![doc.idx] =
        [@ EXCEPT !.assignedTo = userId,
                  !.timeline = Append(@, TimelineEntry("Alert Assigned", <<"to", userId>>)),
                  !.riskScore = IF risk # doc.riskScore THEN risk ELSE @]]

\* schema.methods.addEvidence followed by the write of save().
addEvidence(A, doc) ==
  LET risk == PreSave(doc).riskScore
  IN [A EXCEPT ![doc.idx] =
        [@ EXCEPT !.evidence = @ + 1,
                  !.timeline = Append(@, TimelineEntry("Evidence Added", <<>>)),
                  !.riskScore = IF risk # doc.riskScore THEN risk ELSE @]]

\* The lifecycle method runs on the loaded document and save() returns.
ReqSave ==
  /\ req.pc = "loaded"
  /\ alerts' = CASE req.op = "updateStatus" -> updateStatus(alerts, req.doc, req.arg, now)
                 [] req.op = "assignTo" -> assignTo(alerts, req.doc, req.arg)
                 [] req.op = "addEvidence" -> addEvidence(alerts, req.doc)
  /\ req' = ReqIdle
  /\ UNCHANGED <<now, logs, detEnabled, corrEnabled, det, corr, faults, produced,
                 notifVars, call, detector>>

\* updateAlertNotificationStatus: findByIdAndUpdate with $push of the record of a
\* notification sent over the given channels; no save middleware runs.
updateAlertNotificationStatus(A, i, channels) ==
  [A EXCEPT ![i] = [@ EXCEPT !.notifications =
     Append(@, [method |-> channels, recipient |-> "security-team", status |-> "sent"])]]

\* processNotification has sent a queued notification of alert i.
NotificationSent(i) ==
  /\ i \in 1..Len(alerts)
  /\ Len(alerts[i].notifications) < MaxNotifications
  /\ alerts' = updateAlertNotificationStatus(alerts, i, "dashboard")
  /\ UNCHANGED <<now, logs, detEnabled, corrEnabled, det, corr, faults, produced, req,
                 notifVars, call, detector>>

(* ------------------------ notification service ------------------------ *)
\* this.notificationChannels, by name.
ChannelNames == {"email", "webhook", "dashboard"}

\* The channels whose handler waits on a timer before it resolves (email 1000 ms,
\* webhook 500 ms); the dashboard handler resolves at once.
SlowChannels == {"email", "webhook"}

\* notification.maxAttempts
maxAttempts == 3

\* this.escalationRules, in scan order (escalateAfter in ticks).
escalationRules ==
  << [severity |-> "critical", escalateAfter |-> 1,
      channels |-> <<"email", "webhook", "dashboard">>],
     [severity |-> "high", escalateAfter |-> 3, channels |-> <<"email", "dashboard">>],
     [severity |-> "medium", escalateAfter |-> 6, channels |-> <<"dashboard">>] >>

\* channels.join(','), and rule.channels.join('|') used as a regular expression:
\* the regular expression matches a text that contains one of the names.
JoinChannels(channels) ==
  CASE channels = <<"email", "webhook", "dashboard">> -> "email,webhook,dashboard"
    [] channels = <<"email", "dashboard">> -> "email,dashboard"
    [] channels = <<"dashboard">> -> "dashboard"

\* The channel names a stored notifications.method contains as substrings.
NamesIn(method) ==
  CASE method = "email,webhook,dashboard" -> {"email", "webhook", "dashboard"}
    [] method = "email,dashboard" -> {"email", "dashboard"}
    [] method = "dashboard" -> {"dashboard"}
    [] method = "email" -> {"email"}
    [] method = "webhook" -> {"webhook"}
    [] OTHER -> {}

\* { $regex: channels.join('|') } applied to one method.
RegexMatches(channels, method) == Range(channels) \cap NamesIn(method) # {}

\* The document IntrusionAlert.find hands to checkEscalations.
FoundAlert(A, i) ==
  [idx |-> i, severity |-> A[i].severity, status |-> A[i].status,
   createdAt |-> A[i].createdAt,
   methods |-> [k \in 1..Len(A[i].notifications) |-> A[i].notifications[k].method]]

\* Mutant: the status of the alert is not part of the query.
EscalationQueryAnyStatus(A, rule, t) ==
  LET hit == {i \in 1..Len(A) :
                /\ A[i].severity = rule.severity
                /\ A[i].createdAt <= t - rule.escalateAfter
                /\ \A k \in 1..Len(A[i].notifications) :
                     ~RegexMatches(rule.channels, A[i].notifications[k].method)}
      ids == SelectSeq([i \in 1..Len(A) |-> i], LAMBDA i : i \in hit)
  IN [k \in 1..Len(ids) |-> FoundAlert(A, ids[k])]

\* Mutant: the cutoff test reversed ($gte for $lte).
EscalationQueryYounger(A, rule, t) ==
  LET hit == {i \in 1..Len(A) :
                /\ A[i].severity = rule.severity
                /\ A[i].status = "active"
                /\ A[i].createdAt >= t - rule.escalateAfter
                /\ \A k \in 1..Len(A[i].notifications) :
                     ~RegexMatches(rule.channels, A[i].notifications[k].method)}
      ids == SelectSeq([i \in 1..Len(A) |-> i], LAMBDA i : i \in hit)
  IN [k \in 1..Len(ids) |-> FoundAlert(A, ids[k])]

\* IntrusionAlert.find of checkEscalations for one rule at time t, in natural
\* order: active alerts of the rule's severity created at or before the cutoff,
\* none of whose notification records has a method the regular expression matches.
EscalationQuery(A, rule, t) ==
  LET hit == {i \in 1..Len(A) :
                /\ A[i].severity = rule.severity
                /\ A[i].status = "active"
                /\ A[i].createdAt <= t - rule.escalateAfter
                /\ \A k \in 1..Len(A[i].notifications) :
                     ~RegexMatches(rule.channels, A[i].notifications[k].method)}
      ids == SelectSeq([i \in 1..Len(A) |-> i], LAMBDA i : i \in hit)
  IN [k \in 1..Len(ids) |-> FoundAlert(A, ids[k])]

calculatePriority(severity) ==
  CASE severity = "critical" -> 1 [] severity = "high" -> 2
    [] severity = "medium" -> 3 [] OTHER -> 4

\* The notification object queueNotification builds (scan: the scan that asked
\* for it; handled: per channel, how many calls of its handler have resolved for
\* this notification).
NewNotification(alert, channels, t, n) ==
  [alertId |-> alert.idx, alert |-> alert, channels |-> channels,
   priority |-> calculatePriority(alert.severity), createdAt |-> t,
   attempts |-> 0, status |-> "pending", scan |-> n,
   handled |-> [c \in ChannelNames |-> 0]]

\* The callers of processNotificationQueue: the 30 s setInterval callback and
\* queueNotification (for a critical alert).
Callers == {"interval", "immediate"}

\* One invocation of processNotificationQueue.
\*   pc       idle, deliver (awaiting a channel handler), record (awaiting
\*            updateAlertNotificationStatus)
\*   pending  pendingNotifications not yet processed (the head is in process)
\*   chan     the position in notification.channels of the handler awaited
\*   alone    no other invocation has been in flight since this one started
\*   first    how many notifications had been queued when it started
\*   post     once it has returned after running alone: the queue and the
\*            notifications as it left them
ProcIdle ==
  [pc |-> "idle", pending |-> <<>>, chan |-> 0, alone |-> TRUE, first |-> 0, post |-> <<>>]

\* The invocation of checkEscalations.
\*   pc     idle, find (awaiting IntrusionAlert.find), wait (awaiting
\*          queueNotification)
\*   rule   the escalation rule of the loop
\*   hits   alertsToEscalate not yet queued (the head is being queued)
\*   n      the number of this scan, at the time it started
\*   view   per rule, the collection as the rule's find saw it
\*   done   the rules whose alerts have all been queued
ScanIdle ==
  [pc |-> "idle", rule |-> 0, hits |-> <<>>, n |-> 0, at |-> NoTime,
   view |-> [r \in 1..Len(escalationRules) |-> <<>>], done |-> {}, failed |-> FALSE]

NotificationInit ==
  /\ notifs = <<>>
  /\ queue = <<>>
  /\ proc = [p \in Callers |-> ProcIdle]
  /\ scan = ScanIdle
  /\ chanEnabled = [c \in ChannelNames |-> TRUE]

\* The notification service, as the functions below transform it.
Service == [notifs |-> notifs, queue |-> queue, proc |-> proc, scan |-> scan]

Becomes(m) ==
  /\ notifs' = m.notifs
  /\ queue' = m.queue
  /\ proc' = m.proc
  /\ scan' = m.scan

\* The synchronous parts of processNotificationQueue, processNotification,
\* queueNotification and checkEscalations, each up to the next await that waits
\* for a timer or for the repository.  m is the service, p the caller of
\* processNotificationQueue, t the time and en the enabled flags of the channels.
RECURSIVE processNotificationQueue(_, _, _, _), ProcessPending(_, _, _, _),
          processNotification(_, _, _, _), NotificationSettled(_, _, _, _),
          CallHandlers(_, _, _, _),
          QueueProcessed(_, _, _, _), queueNotification(_, _, _),
          EscalateHits(_, _, _), NotificationQueued(_, _, _)

\* Caller p enters processNotificationQueue: an invocation in flight is no longer
\* alone.
CallEntered(m, p) ==
  [m EXCEPT !.proc =
     [q \in Callers |->
        IF q = p
        THEN [ProcIdle EXCEPT !.pc = "loop", !.first = Len(m.notifs),
                              !.alone = \A o \in Callers \ {p} : m.proc[o].pc = "idle"]
        ELSE [m.proc[q] EXCEPT !.alone = @ /\ m.proc[q].pc = "idle"]]]

\* Entry of processNotificationQueue.
processNotificationQueue(m, p, t, en) ==
  IF m.queue = <<>> THEN QueueProcessed(CallEntered(m, p), p, t, en)
  ELSE ProcessPending(
         [CallEntered(m, p) EXCEPT !.proc[p].pending =
            SelectSeq(m.queue, LAMBDA id : m.notifs[id].status = "pending")],
         p, t, en)

\* Mutant: the queue is rebuilt from the notifications the invocation started
\* with.
ProcessPendingSnapshot(m, p, t, en) ==
  IF m.proc[p].pending # <<>> THEN processNotification(m, p, t, en)
  ELSE QueueProcessed(
         [m EXCEPT !.queue =
            SelectSeq(@, LAMBDA id : /\ id <= m.proc[p].first
                                     /\ m.notifs[id].status = "pending"
                                     /\ m.notifs[id].attempts < maxAttempts)],
         p, t, en)

\* The for-loop over pendingNotifications, then the filter of the queue.
ProcessPending(m, p, t, en) ==
  IF m.proc[p].pending # <<>> THEN processNotification(m, p, t, en)
  ELSE QueueProcessed(
         [m EXCEPT !.queue =
            SelectSeq(@, LAMBDA id : /\ m.notifs[id].status = "pending"
                                     /\ m.notifs[id].attempts < maxAttempts)],
         p, t, en)

\* The sent notification: status and sentAt are set and the record is written.
NotificationDelivered(m, p) ==
  [m EXCEPT !.notifs[Head(m.proc[p].pending)].status = "sent", !.proc[p].pc = "record",
            !.proc[p].chan = 0]

\* The handler of the channel at position k of notification.channels has resolved.
HandlerResolved(m, p, k) ==
  [m EXCEPT !.notifs[Head(m.proc[p].pending)].handled[
               m.notifs[Head(m.proc[p].pending)].channels[k]] = @ + 1]

\* The loop of processNotification over notification.channels from position k on,
\* up to the next handler that waits on a timer: a channel that is unknown, or
\* disabled when the loop reaches it, is passed over.
CallHandlers(m, p, k, en) ==
  IF k > Len(m.notifs[Head(m.proc[p].pending)].channels)
  THEN NotificationDelivered(m, p)
  ELSE IF \/ m.notifs[Head(m.proc[p].pending)].channels[k] \notin DOMAIN en
          \/ ~en[m.notifs[Head(m.proc[p].pending)].channels[k]]
  THEN CallHandlers(m, p, k + 1, en)
  ELSE IF m.notifs[Head(m.proc[p].pending)].channels[k] \in SlowChannels
  THEN [m EXCEPT !.proc[p].pc = "deliver", !.proc[p].chan = k]
  ELSE CallHandlers(HandlerResolved(m, p, k), p, k + 1, en)

\* processNotification up to its first await.
processNotification(m, p, t, en) ==
  CallHandlers([m EXCEPT !.notifs[Head(m.proc[p].pending)].attempts = @ + 1], p, 1, en)

\* The catch of processNotification after a handler rejected.
NotificationFailed(m, p) ==
  IF m.notifs[Head(m.proc[p].pending)].attempts >= maxAttempts
  THEN [m EXCEPT !.notifs[Head(m.proc[p].pending)].status = "failed", !.proc[p].chan = 0]
  ELSE [m EXCEPT !.proc[p].chan = 0]

\* processNotification returned: the loop goes on.
NotificationSettled(m, p, t, en) ==
  ProcessPending([m EXCEPT !.proc[p].pending = Tail(@)], p, t, en)

\* The invocation of caller p has returned.
CallReturned(m, p) ==
  [m EXCEPT !.proc[p] =
     [ProcIdle EXCEPT !.post =
        IF m.proc[p].alone
        THEN <<[first |-> m.proc[p].first, queue |-> m.queue,
                notifs |-> [id \in 1..Len(m.notifs) |->
                              [status |-> m.notifs[id].status,
                               attempts |-> m.notifs[id].attempts]]]>>
        ELSE <<>>]]

\* processNotificationQueue returns to its caller.
QueueProcessed(m, p, t, en) ==
  IF p = "immediate" THEN NotificationQueued(CallReturned(m, p), t, en)
  ELSE CallReturned(m, p)

\* queueNotification for the first of the alerts to escalate.
queueNotification(m, t, en) ==
  IF Head(m.scan.hits).severity = "critical"
  THEN processNotificationQueue(
         [m EXCEPT !.notifs = Append(@, NewNotification(Head(m.scan.hits),
                       escalationRules[m.scan.rule].channels, t, m.scan.n)),
                   !.queue = Append(@, Len(m.notifs) + 1),
                   !.scan.pc = "wait"],
         "immediate", t, en)
  ELSE NotificationQueued(
         [m EXCEPT !.notifs = Append(@, NewNotification(Head(m.scan.hits),
                       escalationRules[m.scan.rule].channels, t, m.scan.n)),
                   !.queue = Append(@, Len(m.notifs) + 1)],
         t, en)

\* queueNotification returned: the next alert of the rule.
NotificationQueued(m, t, en) ==
  EscalateHits([m EXCEPT !.scan.hits = Tail(@)], t, en)

\* The loop over alertsToEscalate, then the find of the next rule or the end of
\* the scan.
EscalateHits(m, t, en) ==
  IF m.scan.hits # <<>> THEN queueNotification(m, t, en)
  ELSE IF m.scan.rule < Len(escalationRules)
  THEN [m EXCEPT !.scan.pc = "find", !.scan.done = @ \cup {m.scan.rule},
                 !.scan.rule = @ + 1]
  ELSE [m EXCEPT !.scan.pc = "idle", !.scan.done = @ \cup {m.scan.rule},
                 !.scan.rule = 0]

\* The '*/5 * * * *' cron job fires: checkEscalations issues the find of the
\* first rule.
ScanStart ==
  /\ scan.pc = "idle"
  /\ scan.at # now
  /\ scan' = [ScanIdle EXCEPT !.pc = "find", !.rule = 1, !.n = scan.n + 1, !.at = now]
  /\ UNCHANGED <<now, logs, alerts, detEnabled, corrEnabled, det, corr, faults, produced,
                 req, notifs, queue, proc, chanEnabled, call, detector>>

\* IntrusionAlert.find of the rule returns; the alerts are queued up to the first
\* one whose queueNotification has to be awaited.
ScanFind ==
  /\ scan.pc = "find"
  /\ Becomes(EscalateHits(
       [Service EXCEPT
          !.scan.hits = EscalationQuery(alerts, escalationRules[scan.rule], now),
          !.scan.view[scan.rule] = alerts],
       now, chanEnabled))
  /\ UNCHANGED <<now, logs, alerts, detEnabled, corrEnabled, det, corr, faults, produced,
                 req, chanEnabled, call, detector>>

\* IntrusionAlert.find rejects: the catch of checkEscalations ends the scan.
ScanFindFails ==
  /\ scan.pc = "find"
  /\ faults < MaxFaults
  /\ faults' = faults + 1
  /\ scan' = [scan EXCEPT !.pc = "idle", !.rule = 0, !.failed = TRUE]
  /\ UNCHANGED <<now, logs, alerts, detEnabled, corrEnabled, det, corr, produced, req,
                 notifs, queue, proc, chanEnabled, call, detector>>

\* The 30 s timer fires: processNotificationQueue runs up to its first await.
ProcStart ==
  /\ proc["interval"].pc = "idle"
  /\ queue # <<>>
  /\ Becomes(processNotificationQueue(Service, "interval", now, chanEnabled))
  /\ UNCHANGED <<now, logs, alerts, detEnabled, corrEnabled, det, corr, faults, produced,
                 req, chanEnabled, call, detector>>

\* The handler awaited has resolved: the loop over the channels goes on, and
\* after the last channel the notification is sent.
ProcDelivered(p) ==
  /\ proc[p].pc = "deliver"
  /\ Becomes(CallHandlers(HandlerResolved(Service, p, proc[p].chan), p,
                           proc[p].chan + 1, chanEnabled))
  /\ UNCHANGED <<now, logs, alerts, detEnabled, corrEnabled, det, corr, faults, produced,
                 req, chanEnabled, call, detector>>

\* A handler of the notification rejects; the catch leaves it pending, or failed
\* after the last attempt.
ProcDeliverFails(p) ==
  /\ proc[p].pc = "deliver"
  /\ faults < MaxFaults
  /\ faults' = faults + 1
  /\ Becomes(NotificationSettled(NotificationFailed(Service, p), p, now, chanEnabled))
  /\ UNCHANGED <<now, logs, alerts, detEnabled, corrEnabled, det, corr, produced, req,
                 chanEnabled, call, detector>>

\* updateAlertNotificationStatus: findByIdAndUpdate has pushed the record.
ProcRecord(p) ==
  /\ proc[p].pc = "record"
  /\ alerts' = updateAlertNotificationStatus(alerts, notifs[Head(proc[p].pending)].alertId,
                 JoinChannels(notifs[Head(proc[p].pending)].channels))
  /\ Becomes(NotificationSettled(Service, p, now, chanEnabled))
  /\ UNCHANGED <<now, logs, detEnabled, corrEnabled, det, corr, faults, produced, req,
                 chanEnabled, call, detector>>

\* updateAlertNotificationStatus: findByIdAndUpdate rejects; the error is logged.
ProcRecordFails(p) ==
  /\ proc[p].pc = "record"
  /\ faults < MaxFaults
  /\ faults' = faults + 1
  /\ Becomes(NotificationSettled(Service, p, now, chanEnabled))
  /\ UNCHANGED <<now, logs, alerts, detEnabled, corrEnabled, det, corr, produced, req,
                 chanEnabled, call, detector>>

\* Five minutes pass while the notification service is at rest: the scan and the
\* processing take seconds, and the 30 s timer has fired since the last change of
\* the queue.
Elapse ==
  /\ scan.n < MaxScans
  /\ scan.pc = "idle"
  /\ scan.at = now
  /\ \A p \in Callers : proc[p].pc = "idle"
  /\ queue = <<>>
  /\ req.pc = "idle"
  /\ now' = now + 1
  /\ UNCHANGED <<logs, alerts, detEnabled, corrEnabled, det, corr, faults, produced, req,
                 notifVars, call, detector>>

(* ------------------------- specifications ----------------------------- *)
Init ==
  /\ now = 0
  /\ logs = <<>>
  /\ alerts = <<>>
  /\ detEnabled = [r \in 1..Len(detectionRules) |-> TRUE]
  /\ corrEnabled = [r \in 1..Len(correlationRules) |-> TRUE]
  /\ det = [c \in Triggers |-> DetIdle]
  /\ corr = [c \in Triggers |-> CorrIdle]
  /\ faults = 0
  /\ produced = {}
  /\ req = ReqIdle
  /\ NotificationInit
  /\ detector = Initialized
  /\ call = NoCall

\* Logs two detection rules of different severity fire on, one at a time.
DetectionLogs == {SqlInjection, PrivEsc}

\* The detector with an unreliable repository: cycles started by the interval
\* timer, one after the other, while logs keep arriving.
Next ==
  \/ \E tpl \in DetectionLogs : Store(tpl, "203.0.113.10", MaxLogs)
  \/ Tick
  \/ DetFetch("interval")
  \/ DetFindOne("interval")
  \/ DetSave("interval")
  \/ DetMark("interval")
  \/ DetFetchFails("interval")
  \/ DetFindOneFails("interval")
  \/ DetSaveFails("interval")
  \/ DetMarkFails("interval")

Spec == Init /\ [][Next]_vars

\* The detector with a reliable repository and both triggers: the cron job may
\* start a cycle while the cycle the interval timer started is still in flight.
NextRace ==
  \/ \E ip \in Attackers : Store(SqlInjection, ip, MaxLogs)
  \/ Tick
  \/ \E c \in Triggers : DetFetch(c)
  \/ \E c \in Triggers : DetFindOne(c)
  \/ \E c \in Triggers : DetSave(c)
  \/ \E c \in Triggers : DetMark(c)

SpecRace == Init /\ [][NextRace]_vars

\* The batches a detection cycle may find: up to MaxBatch logs stored at tick 0.
Batches ==
  LET choice == {MkLog(tpl, ip, 0) : tpl \in {SqlInjection, PrivEsc, Download}, ip \in Attackers}
  IN UNION {[1..n -> choice] : n \in 0..MaxBatch}

InitSeq ==
  /\ now = 0
  /\ logs \in Batches
  /\ alerts = <<>>
  /\ detEnabled = [r \in 1..Len(detectionRules) |-> TRUE]
  /\ corrEnabled = [r \in 1..Len(correlationRules) |-> TRUE]
  /\ det = [c \in Triggers |-> DetIdle]
  /\ corr = [c \in Triggers |-> CorrIdle]
  /\ faults = 0
  /\ produced = {}
  /\ req = ReqIdle
  /\ NotificationInit
  /\ detector = Initialized
  /\ call = NoCall

\* runDetectionCycle executed again and again, one invocation after the other, over
\* a batch to which nothing is added, with a reliable repository.
NextSeq ==
  \/ Tick
  \/ DetFetch("interval")
  \/ DetFindOne("interval")
  \/ DetSave("interval")
  \/ DetMark("interval")

SpecSeq == InitSeq /\ [][NextSeq]_vars

\* Five or more failed logins from one address are waiting for the detector.
InitBrute ==
  /\ now = 0
  /\ \E n \in bruteForceAttempts..(MaxBruteLogs - 1) :
       logs = [i \in 1..n |-> MkLog(FailedLogin, "203.0.113.10", 0)]
  /\ alerts = <<>>
  /\ detEnabled = [r \in 1..Len(detectionRules) |-> TRUE]
  /\ corrEnabled = [r \in 1..Len(correlationRules) |-> TRUE]
  /\ det = [c \in Triggers |-> DetIdle]
  /\ corr = [c \in Triggers |-> CorrIdle]
  /\ faults = 0
  /\ produced = {}
  /\ req = ReqIdle
  /\ NotificationInit
  /\ detector = Initialized
  /\ call = NoCall

\* Sequential detection cycles while further failed logins arrive.
NextBrute ==
  \/ \E ip \in Attackers : Store(FailedLogin, ip, MaxBruteLogs)
  \/ Tick
  \/ DetFetch("interval")
  \/ DetFindOne("interval")
  \/ DetSave("interval")
  \/ DetMark("interval")

SpecBrute == InitBrute /\ [][NextBrute]_vars

\* The logs the correlation scenario draws from: the stages of an attack chain, a
\* large download, logins at three systems, injections from three addresses.
CorrChoices ==
  << MkLog(SqlInjection, "203.0.113.10", 0), MkLog(PrivEsc, "203.0.113.10", 0),
     MkLog(Download, "203.0.113.10", 0), MkLog(Scan, "203.0.113.10", 0),
     MkLog(LoginAt("vpn"), "203.0.113.10", 0), MkLog(LoginAt("db"), "203.0.113.10", 0),
     MkLog(LoginAt("mail"), "203.0.113.10", 0),
     MkLog(SqlInjection, "198.51.100.7", 0), MkLog(SqlInjection, "192.0.2.5", 0) >>

\* Up to MaxBatch of them, stored at tick 0 in the order of the list.
CorrBatches ==
  LET picks == UNION {[1..n -> 1..Len(CorrChoices)] : n \in 0..MaxBatch}
      ordered == {f \in picks : \A k \in 1..(Len(f) - 1) : f[k] <= f[k + 1]}
  IN {[k \in 1..Len(f) |-> CorrChoices[f[k]]] : f \in ordered}

\* No cycle is in flight.
NoCycle == \A c \in Triggers : det[c].pc = "idle" /\ corr[c].pc = "idle"

InitCorr ==
  /\ now = 0
  /\ logs \in CorrBatches
  /\ alerts = <<>>
  /\ detEnabled = [r \in 1..Len(detectionRules) |-> TRUE]
  /\ corrEnabled = [r \in 1..Len(correlationRules) |-> TRUE]
  /\ det = [c \in Triggers |-> DetIdle]
  /\ corr = [c \in Triggers |-> CorrIdle]
  /\ faults = 0
  /\ produced = {}
  /\ req = ReqIdle
  /\ NotificationInit
  /\ detector = Initialized
  /\ call = NoCall

\* Detection cycles of the interval timer and correlation cycles of both triggers
\* (the 2-minute timer and the 5-minute cron job) over the stored logs, with an
\* unreliable alert repository, one cycle at a time.
NextCorr ==
  \/ Tick
  \/ NoCycle /\ DetFetch("interval")
  \/ DetFindOne("interval")
  \/ DetSave("interval")
  \/ DetMark("interval")
  \/ DetFindOneFails("interval")
  \/ DetSaveFails("interval")
  \/ \E c \in Triggers : NoCycle /\ CorrFetchLogs(c)
  \/ \E c \in Triggers : CorrFetchAlerts(c)
  \/ \E c \in Triggers : CorrFindOne(c)
  \/ \E c \in Triggers : CorrSave(c)
  \/ \E c \in Triggers : (NoCycle \/ corr[c].pc # "idle") /\ CorrFetchFails(c)
  \/ \E c \in Triggers : CorrFindOneFails(c)
  \/ \E c \in Triggers : CorrSaveFails(c)

SpecCorr == InitCorr /\ [][NextCorr]_vars

\* Alerts raised by an analyst and by the detector, worked on through the alert
\* API while notifications go out, all inside one detection window.
NextAlert ==
  \/ Store(SqlInjection, "203.0.113.10", MaxAlertLogs)
  \/ \E body \in PostBodies : PostAlert(body, MaxPosted)
  \/ DetFetch("interval")
  \/ DetFindOne("interval")
  \/ DetSave("interval")
  \/ DetMark("interval")
  \/ \E i \in 1..Len(alerts), r \in ReqOps : ReqLoad(i, r)
  \/ ReqSave
  \/ \E i \in 1..Len(alerts) : NotificationSent(i)

SpecAlert == Init /\ [][NextAlert]_vars

\* Failed logins of one address keep arriving while the interval timer and the
\* cron job both start detection cycles, with a reliable repository and inside
\* one detection window.
NextMerge ==
  \/ Store(FailedLogin, "203.0.113.10", MaxMergeLogs)
  \/ \E c \in Triggers : DetFetch(c)
  \/ \E c \in Triggers : DetFindOne(c)
  \/ \E c \in Triggers : DetSave(c)
  \/ \E c \in Triggers : DetMark(c)

SpecMerge == Init /\ [][NextMerge]_vars

\* The bodies POST /api/alerts was called with in the escalation scenario: any
\* severity, without notifications or with the record of a dashboard message.
EscalationBodies ==
  {[title |-> {}, type |-> "other", severity |-> sev, sourceIp |-> NoIp,
    affectedAssets |-> {}, confidence |-> 50, relatedLogs |-> <<>>,
    correlationId |-> NoCorrelation, detectionMethod |-> "signature",
    notifications |-> nt] :
     sev \in Severities,
     nt \in {<<>>, <<[method |-> "dashboard", recipient |-> "security-team",
                      status |-> "sent"]>>}}

\* The document POST /api/alerts stored at time t for a body that names
\* notifications.
PostedAlert(body, t) ==
  PreSave([NewAlert(body, t) EXCEPT !.notifications = body.notifications])

\* The largest escalateAfter of the rules.
LongestTimeout ==
  LET W == {escalationRules[r].escalateAfter : r \in 1..Len(escalationRules)}
  IN CHOOSE m \in W : \A w \in W : w <= m

\* The ages alerts have when the scenario starts: none, and the escalateAfter of
\* each rule.
Ages == {0} \cup {escalationRules[r].escalateAfter : r \in 1..Len(escalationRules)}

\* Up to MaxEscalationAlerts alerts have been posted, oldest first.
InitEscalation ==
  /\ now = LongestTimeout
  /\ logs = <<>>
  /\ \E n \in 0..MaxEscalationAlerts :
       \E b \in [1..n -> EscalationBodies], age \in [1..n -> Ages] :
         /\ \A k \in 1..(n - 1) : age[k] >= age[k + 1]
         /\ alerts = [k \in 1..n |-> PostedAlert(b[k], now - age[k])]
  /\ detEnabled = [r \in 1..Len(detectionRules) |-> TRUE]
  /\ corrEnabled = [r \in 1..Len(correlationRules) |-> TRUE]
  /\ det = [c \in Triggers |-> DetIdle]
  /\ corr = [c \in Triggers |-> CorrIdle]
  /\ faults = 0
  /\ produced = {}
  /\ req = ReqIdle
  /\ NotificationInit
  /\ detector = Initialized
  /\ call = NoCall

\* The notification service over the posted alerts: escalation scans every five
\* minutes, the queue processed by the timer and by queueNotification, an
\* unreliable repository and channel, and analysts taking alerts up.
NextEscalation ==
  \/ scan.n < MaxScans /\ ScanStart
  \/ ScanFind
  \/ ScanFindFails
  \/ ProcStart
  \/ \E p \in Callers : ProcDelivered(p)
  \/ \E p \in Callers : ProcDeliverFails(p)
  \/ \E p \in Callers : ProcRecord(p)
  \/ \E p \in Callers : ProcRecordFails(p)
  \/ Elapse
  \/ \E i \in 1..Len(alerts) :
       /\ alerts[i].status = "active"
       /\ ReqLoad(i, [op |-> "updateStatus", arg |-> "investigating"])
  \/ ReqSave

SpecEscalation == InitEscalation /\ [][NextEscalation]_vars

\* The detector and the notification service side by side: an injection is
\* logged and detected while escalation scans run and the queue is processed, with
\* a reliable repository.
NextNotify ==
  \/ Store(SqlInjection, "203.0.113.10", MaxAlertLogs)
  \/ DetFetch("interval")
  \/ DetFindOne("interval")
  \/ DetSave("interval")
  \/ DetMark("interval")
  \/ scan.n < MaxScans /\ ScanStart
  \/ ScanFind
  \/ ProcStart
  \/ \E p \in Callers : ProcDelivered(p)
  \/ \E p \in Callers : ProcRecord(p)
  \/ Elapse

SpecNotify == Init /\ [][NextNotify]_vars

\* Failed logins of two addresses arrive over time while the interval timer runs
\* detection cycles one after the other, with a reliable repository.
NextLogins ==
  \/ \E ip \in Attackers : Store(FailedLogin, ip, MaxLoginLogs)
  \/ Tick
  \/ DetFetch("interval")
  \/ DetFindOne("interval")
  \/ DetSave("interval")
  \/ DetMark("interval")

SpecLogins == Init /\ [][NextLogins]_vars

\* The addresses of the web clients.
Clients ==
  << "10.0.0.1", "10.0.0.2", "10.0.0.3", "10.0.0.4", "10.0.0.5", "10.0.0.6",
     "10.0.0.7", "10.0.0.8", "10.0.0.9", "10.0.0.10", "10.0.0.11", "10.0.0.12" >>

\* The numbers of requests one client sends in the window, the busiest clients
\* first.
Volumes == <<60, 50, 10, 1>>

\* The per-client request counts when k[v] clients send Volumes[v] requests each.
VolumeCounts(k) ==
  Concat([v \in 1..Len(Volumes) |-> [i \in 1..k[v] |-> Volumes[v]]])

\* The requests of the clients, client after client, stored at tick 0.
TrafficLogs(counts) ==
  Concat([c \in 1..Len(counts) |-> [i \in 1..counts[c] |-> MkLog(Request, Clients[c], 0)]])

\* Web traffic of up to MaxClients clients is waiting for the detector.
InitTraffic ==
  /\ now = 0
  /\ \E k \in [1..Len(Volumes) -> 0..MaxClients] :
       /\ Len(VolumeCounts(k)) <= Min(MaxClients, Len(Clients))
       /\ SumOver(VolumeCounts(k), 1..Len(VolumeCounts(k))) <= MaxTrafficLogs
       /\ logs = TrafficLogs(VolumeCounts(k))
  /\ alerts = <<>>
  /\ detEnabled = [r \in 1..Len(detectionRules) |-> TRUE]
  /\ corrEnabled = [r \in 1..Len(correlationRules) |-> TRUE]
  /\ det = [c \in Triggers |-> DetIdle]
  /\ corr = [c \in Triggers |-> CorrIdle]
  /\ faults = 0
  /\ produced = {}
  /\ req = ReqIdle
  /\ NotificationInit
  /\ detector = Initialized
  /\ call = NoCall

\* Sequential detection cycles over the traffic.
NextTraffic ==
  \/ Tick
  \/ DetFetch("interval")
  \/ DetFindOne("interval")
  \/ DetSave("interval")
  \/ DetMark("interval")

SpecTraffic == InitTraffic /\ [][NextTraffic]_vars

\* rule.enabled = b on a rule of the correlation engine: the flag is flipped in
\* place.
SetCorrelationRuleEnabled(r, b) ==
  /\ corrEnabled[r] # b
  /\ corrEnabled' = [corrEnabled EXCEPT ![r] = b]
  /\ UNCHANGED <<now, logs, alerts, detEnabled, det, corr, faults, produced, req,
                 notifVars, call, detector>>

\* Logs stored HorizonStart ticks ago are in the repository.
InitHorizon ==
  /\ now = HorizonStart
  /\ logs \in CorrBatches
  /\ alerts = <<>>
  /\ detEnabled = [r \in 1..Len(detectionRules) |-> TRUE]
  /\ corrEnabled = [r \in 1..Len(correlationRules) |-> TRUE]
  /\ det = [c \in Triggers |-> DetIdle]
  /\ corr = [c \in Triggers |-> CorrIdle]
  /\ faults = 0
  /\ produced = {}
  /\ req = ReqIdle
  /\ NotificationInit
  /\ detector = Initialized
  /\ call = NoCall

\* Correlation cycles of the timer, one after the other, while correlation rules
\* are switched off and on between the cycles.
NextHorizon ==
  \/ \E r \in 1..Len(correlationRules), b \in BOOLEAN :
       corr["interval"].pc = "idle" /\ SetCorrelationRuleEnabled(r, b)
  \/ CorrFetchLogs("interval")
  \/ CorrFetchAlerts("interval")
  \/ CorrFindOne("interval")
  \/ CorrSave("interval")

SpecHorizon == InitHorizon /\ [][NextHorizon]_vars

\* The assets a correlation may name.
Assets == <<"Database", "File System", "Web Application", "System">>

\* correlationData as calculateCorrelationSeverity reads it: every confidence and
\* zero to four affected assets.
SeverityInputs ==
  {[confidence |-> c, affectedAssets |-> {Assets[k] : k \in 1..n}] :
     c \in 0..100, n \in 0..Len(Assets)}

\* calculateCorrelationSeverity is about to be called with some correlationData.
InitSeverity ==
  /\ now = 0
  /\ logs = <<>>
  /\ alerts = <<>>
  /\ detEnabled = [r \in 1..Len(detectionRules) |-> TRUE]
  /\ corrEnabled = [r \in 1..Len(correlationRules) |-> TRUE]
  /\ det = [c \in Triggers |-> DetIdle]
  /\ corr = [c \in Triggers |-> CorrIdle]
  /\ faults = 0
  /\ produced = {}
  /\ req = ReqIdle
  /\ NotificationInit
  /\ detector = Initialized
  /\ \E d \in SeverityInputs :
       call = [fn |-> "calculateCorrelationSeverity", done |-> FALSE, arg |-> d]

\* The call returns.
CalculateSeverity ==
  /\ call.fn = "calculateCorrelationSeverity"
  /\ ~call.done
  /\ call' = [fn |-> call.fn, done |-> TRUE, arg |-> call.arg,
              result |-> calculateCorrelationSeverity(call.arg)]
  /\ UNCHANGED <<now, logs, alerts, detEnabled, corrEnabled, det, corr, faults, produced,
                 req, notifVars, detector>>

SpecSeverity == InitSeverity /\ [][CalculateSeverity]_vars

\* The logs the attack-chain scenario draws from: the five stages from one
\* address, one log that names two stages, and two stages from another address.
ChainChoices ==
  << MkLog(Scan, "203.0.113.10", 0), MkLog(LoginScan, "203.0.113.10", 0),
     MkLog(LoginAt("vpn"), "203.0.113.10", 0), MkLog(PrivEsc, "203.0.113.10", 0),
     MkLog(Lateral, "203.0.113.10", 0), MkLog(Exfiltration, "203.0.113.10", 0),
     MkLog(Scan, "198.51.100.7", 0), MkLog(PrivEsc, "198.51.100.7", 0) >>

\* Up to MaxChainLogs of them, stored at tick 0 in the order of the list.
ChainBatches ==
  LET picks == UNION {[1..n -> 1..Len(ChainChoices)] : n \in 0..MaxChainLogs}
      ordered == {f \in picks : \A k \in 1..(Len(f) - 1) : f[k] <= f[k + 1]}
  IN {[k \in 1..Len(f) |-> ChainChoices[f[k]]] : f \in ordered}

InitChain ==
  /\ now = 0
  /\ logs \in ChainBatches
  /\ alerts = <<>>
  /\ detEnabled = [r \in 1..Len(detectionRules) |-> TRUE]
  /\ corrEnabled = [r \in 1..Len(correlationRules) |-> TRUE]
  /\ det = [c \in Triggers |-> DetIdle]
  /\ corr = [c \in Triggers |-> CorrIdle]
  /\ faults = 0
  /\ produced = {}
  /\ req = ReqIdle
  /\ NotificationInit
  /\ detector = Initialized
  /\ call = NoCall

\* Detection and correlation cycles of the timers over the stored logs, one cycle
\* at a time, with a reliable repository.
NextChain ==
  \/ NoCycle /\ DetFetch("interval")
  \/ DetFindOne("interval")
  \/ DetSave("interval")
  \/ DetMark("interval")
  \/ NoCycle /\ CorrFetchLogs("interval")
  \/ CorrFetchAlerts("interval")
  \/ CorrFindOne("interval")
  \/ CorrSave("interval")

SpecChain == InitChain /\ [][NextChain]_vars

\* The logs the data-breach scenario draws from: data movements of 10, 20 and
\* 60 MiB and a transfer that no keyword marks as a data movement.
BreachChoices ==
  << MkLog(Export, "203.0.113.10", 0), MkLog(Backup, "203.0.113.10", 0),
     MkLog(Download, "203.0.113.10", 0), MkLog(Transfer, "203.0.113.10", 0),
     MkLog(Export, "198.51.100.7", 0) >>

\* Up to MaxBreachLogs of them, stored at tick 0 in the order of the list.
BreachBatches ==
  LET picks == UNION {[1..n -> 1..Len(BreachChoices)] : n \in 0..MaxBreachLogs}
      ordered == {f \in picks : \A k \in 1..(Len(f) - 1) : f[k] <= f[k + 1]}
  IN {[k \in 1..Len(f) |-> BreachChoices[f[k]]] : f \in ordered}

InitBreach ==
  /\ now = 0
  /\ logs \in BreachBatches
  /\ alerts = <<>>
  /\ detEnabled = [r \in 1..Len(detectionRules) |-> TRUE]
  /\ corrEnabled = [r \in 1..Len(correlationRules) |-> TRUE]
  /\ det = [c \in Triggers |-> DetIdle]
  /\ corr = [c \in Triggers |-> CorrIdle]
  /\ faults = 0
  /\ produced = {}
  /\ req = ReqIdle
  /\ NotificationInit
  /\ detector = Initialized
  /\ call = NoCall

\* Correlation cycles of the timer over the stored logs, one after the other, with
\* a reliable repository.
NextBreach ==
  \/ CorrFetchLogs("interval")
  \/ CorrFetchAlerts("interval")
  \/ CorrFindOne("interval")
  \/ CorrSave("interval")

SpecBreach == InitBreach /\ [][NextBreach]_vars

\* The requests PUT /api/alerts/:id/status accepts: the four status values.
StatusRequests ==
  {[op |-> "updateStatus", arg |-> s] :
     s \in {"active", "investigating", "resolved", "false_positive"}}

\* Analysts raise an alert and work on it through the lifecycle routes, one
\* request at a time.
NextStatus ==
  \/ \E body \in PostBodies : PostAlert(body, MaxPosted)
  \/ \E i \in 1..Len(alerts), r \in StatusRequests \cup ReqOps : ReqLoad(i, r)
  \/ ReqSave
  \/ Tick

SpecStatus == Init /\ [][NextStatus]_vars

\* Mutant: the updates are assigned to every rule.
updateDetectionRuleAssignsAll(ruleName, updates) ==
  /\ detEnabled' = [r \in DOMAIN detEnabled |-> updates.enabled]
  /\ call' = [fn |-> "updateDetectionRule", done |-> TRUE,
              arg |-> [ruleName |-> ruleName, updates |-> updates]]
  /\ UNCHANGED <<now, logs, alerts, corrEnabled, det, corr, faults, produced, req,
                 notifVars, detector>>

\* updateDetectionRule(ruleName, updates) with updates = { enabled }: Object.assign
\* on the rule of that name, if there is one.  The call is remembered.
updateDetectionRule(ruleName, updates) ==
  /\ detEnabled' = [r \in DOMAIN detEnabled |->
                      IF detectionRules[r].name = ruleName THEN updates.enabled
                      ELSE detEnabled[r]]
  /\ call' = [fn |-> "updateDetectionRule", done |-> TRUE,
              arg |-> [ruleName |-> ruleName, updates |-> updates]]
  /\ UNCHANGED <<now, logs, alerts, corrEnabled, det, corr, faults, produced, req,
                 notifVars, detector>>

\* The rule names updateDetectionRule is called with: two rules and a name no
\* rule has.
RuleNames == {"SQL Injection Detection", "Privilege Escalation", "No Such Rule"}

\* Detection cycles of the timer, one after the other, with a reliable repository,
\* while logs arrive and rules are switched off and on.
NextRules ==
  \/ \E tpl \in DetectionLogs : Store(tpl, "203.0.113.10", MaxLogs)
  \/ \E n \in RuleNames, b \in BOOLEAN : updateDetectionRule(n, [enabled |-> b])
  \/ DetFetch("interval")
  \/ DetFindOne("interval")
  \/ DetSave("interval")
  \/ DetMark("interval")

SpecRules == Init /\ [][NextRules]_vars

\* Ingestion stores a log that carries its own timestamp (req.body.timestamp,
\* entry.timestamp), age ticks in the past.
StoreDated(tpl, ip, age, max) ==
  /\ Len(logs) < max
  /\ now - age >= 0
  /\ logs' = Append(logs, MkLog(tpl, ip, now - age))
  /\ UNCHANGED <<now, alerts, detEnabled, corrEnabled, det, corr, faults, produced, req,
                 notifVars, call, detector>>

\* Five minutes pass.  The timer starts a cycle every 30 seconds: no log inside
\* the detection window is still waiting for one.
TickAfterCycles ==
  /\ \A i \in 1..Len(logs) : logs[i].processed \/ logs[i].timestamp < now - timeWindow
  /\ Tick

\* Logs arrive, some of them dated in the past, while the interval timer runs
\* detection cycles one after the other with a reliable repository.
NextDated ==
  \/ \E age \in 0..MaxAge : StoreDated(SqlInjection, "203.0.113.10", age, MaxLogs)
  \/ TickAfterCycles
  \/ DetFetch("interval")
  \/ DetFindOne("interval")
  \/ DetSave("interval")
  \/ DetMark("interval")

\* The timer keeps firing and every repository call returns.
SpecDated ==
  /\ Init
  /\ [][NextDated]_vars
  /\ WF_vars(DetFetch("interval"))
  /\ WF_vars(DetFindOne("interval"))
  /\ WF_vars(DetSave("interval"))
  /\ WF_vars(DetMark("interval"))

\* The logs of the grouping scenario: the user admin logs in at three systems
\* from each of two addresses.
GroupLogins ==
  << MkLog(LoginAt("vpn"), "203.0.113.10", 0), MkLog(LoginAt("db"), "203.0.113.10", 0),
     MkLog(LoginAt("mail"), "203.0.113.10", 0),
     MkLog(LoginAt("vpn"), "198.51.100.7", 1), MkLog(LoginAt("db"), "198.51.100.7", 1),
     MkLog(LoginAt("mail"), "198.51.100.7", 1) >>

\* The alerts of the grouping scenario: injections from three addresses in the
\* 5-minute bucket of tick 0 and again in the bucket of tick 1.
GroupAlerts ==
  [k \in 1..6 |->
     PreSave(NewAlert(
       [title |-> {}, type |-> "sql_injection", severity |-> "critical",
        sourceIp |-> <<"203.0.113.10", "198.51.100.7", "192.0.2.5">>[((k - 1) % 3) + 1],
        affectedAssets |-> {"Database"}, confidence |-> 85, relatedLogs |-> <<>>,
        correlationId |-> NoCorrelation, detectionMethod |-> "signature"],
       (k - 1) \div 3))]

\* The elements of s at the positions in keep, in their order.
Picked(s, keep) == SelectSeq(s, LAMBDA x : \E k \in keep : s[k] = x)

\* Some of the logins and some of the alerts are in the store at tick 1.
InitGroups ==
  /\ now = 1
  /\ \E keep \in SUBSET (1..Len(GroupLogins)) : logs = Picked(GroupLogins, keep)
  /\ \E keep \in SUBSET (1..Len(GroupAlerts)) : alerts = Picked(GroupAlerts, keep)
  /\ detEnabled = [r \in 1..Len(detectionRules) |-> TRUE]
  /\ corrEnabled = [r \in 1..Len(correlationRules) |-> TRUE]
  /\ det = [c \in Triggers |-> DetIdle]
  /\ corr = [c \in Triggers |-> CorrIdle]
  /\ faults = 0
  /\ produced = {}
  /\ req = ReqIdle
  /\ NotificationInit
  /\ detector = Initialized
  /\ call = NoCall

\* One correlation cycle of the interval timer after the other over the stored
\* logs and alerts, with a reliable repository.
NextGroups ==
  \/ CorrFetchLogs("interval")
  \/ CorrFetchAlerts("interval")
  \/ CorrFindOne("interval")
  \/ CorrSave("interval")

SpecGroups == InitGroups /\ [][NextGroups]_vars

\* updateNotificationChannel(channelName, enabled): the flag of the channel of
\* that name is set; a name no channel has changes nothing.
updateNotificationChannel(channelName, enabled) ==
  /\ chanEnabled' = IF channelName \in DOMAIN chanEnabled
                    THEN [chanEnabled EXCEPT ![channelName] = enabled]
                    ELSE chanEnabled
  /\ UNCHANGED <<now, logs, alerts, detEnabled, corrEnabled, det, corr, faults, produced,
                 req, notifs, queue, proc, scan, call, detector>>

\* One alert has been posted.
InitChannels ==
  /\ now = LongestTimeout
  /\ logs = <<>>
  /\ \E b \in EscalationBodies, age \in Ages : alerts = <<PostedAlert(b, now - age)>>
  /\ detEnabled = [r \in 1..Len(detectionRules) |-> TRUE]
  /\ corrEnabled = [r \in 1..Len(correlationRules) |-> TRUE]
  /\ det = [c \in Triggers |-> DetIdle]
  /\ corr = [c \in Triggers |-> CorrIdle]
  /\ faults = 0
  /\ produced = {}
  /\ req = ReqIdle
  /\ NotificationInit
  /\ detector = Initialized
  /\ call = NoCall

\* The notification service over the posted alert while an administrator
\* switches channels off and on, with a reliable repository and reliable channels.
NextChannels ==
  \/ scan.n < MaxScans /\ ScanStart
  \/ ScanFind
  \/ ProcStart
  \/ \E p \in Callers : ProcDelivered(p)
  \/ \E p \in Callers : ProcRecord(p)
  \/ Elapse
  \/ \E c \in ChannelNames \cup {"sms"}, b \in BOOLEAN : updateNotificationChannel(c, b)

SpecChannels == InitChannels /\ [][NextChannels]_vars

\* How many interval timers and cron jobs the scenarios let the detector create.
MaxStarts == 3

\* A call of initialize(), startDetection() or stopDetection() by the application.
Initialize ==
  /\ detector.handles < MaxStarts
  /\ detector.jobs < MaxStarts
  /\ detector' = initialize(detector)
  /\ UNCHANGED <<now, logs, alerts, detEnabled, corrEnabled, det, corr, faults, produced,
                 req, notifVars, call>>

StartDetection ==
  /\ detector.handles < MaxStarts
  /\ detector' = startDetection(detector)
  /\ UNCHANGED <<now, logs, alerts, detEnabled, corrEnabled, det, corr, faults, produced,
                 req, notifVars, call>>

StopDetection ==
  /\ detector' = stopDetection(detector)
  /\ UNCHANGED <<now, logs, alerts, detEnabled, corrEnabled, det, corr, faults, produced,
                 req, notifVars, call>>

\* The detector as constructed, before initialize() is called.
InitGating ==
  /\ now = 0
  /\ logs = <<>>
  /\ alerts = <<>>
  /\ detEnabled = [r \in 1..Len(detectionRules) |-> TRUE]
  /\ corrEnabled = [r \in 1..Len(correlationRules) |-> TRUE]
  /\ det = [c \in Triggers |-> DetIdle]
  /\ corr = [c \in Triggers |-> CorrIdle]
  /\ faults = 0
  /\ produced = {}
  /\ req = ReqIdle
  /\ NotificationInit
  /\ detector = Constructed
  /\ call = NoCall

\* The application starts and stops the detector in any order while logs arrive
\* and the timer and the cron job fire, all within one tick.
NextGating ==
  \/ Initialize
  \/ StartDetection
  \/ StopDetection
  \/ Store(SqlInjection, "203.0.113.10", MaxLogs)
  \/ \E c \in Triggers : DetFetch(c)
  \/ \E c \in Triggers : DetFindOne(c)
  \/ \E c \in Triggers : DetSave(c)
  \/ \E c \in Triggers : DetMark(c)

SpecGating == InitGating /\ [][NextGating]_vars

\* Detection and correlation cycles in flight at the same time while logs arrive:
\* a correlation cycle may fetch before, between and after the steps of a
\* detection cycle that marks the same logs.
NextOverlap ==
  \/ \E tpl \in {SqlInjection, PrivEsc, Download} : Store(tpl, "203.0.113.10", MaxLogs)
  \/ Tick
  \/ DetFetch("interval")
  \/ DetFindOne("interval")
  \/ DetSave("interval")
  \/ DetMark("interval")
  \/ CorrFetchLogs("interval")
  \/ CorrFetchAlerts("interval")
  \/ CorrFindOne("interval")
  \/ CorrSave("interval")

SpecOverlap == Init /\ [][NextOverlap]_vars

(* ------------------------------ claims -------------------------------- *)
ActiveInWindow(a) ==
  a.status \in {"active", "investigating"} /\ a.createdAt >= now - timeWindow

\* C1: under every interleaving of createAlert calls there is at most one alert
\* in status active/investigating per (type, sourceIp) created inside the
\* detection window.
C1_AtMostOnePerKey ==
  \A i, j \in 1..Len(alerts) :
    /\ alerts[i].detectionMethod = "signature"
    /\ alerts[j].detectionMethod = "signature"
    /\ alerts[i].type = alerts[j].type
    /\ alerts[i].sourceIp = alerts[j].sourceIp
    /\ ActiveInWindow(alerts[i])
    /\ ActiveInWindow(alerts[j])
    => i = j

\* C4: a cycle in which the event fetch or an alert read/write failed marks none
\* of its fetched events processed.
C4_FailureMarksNothing ==
  \A c \in Triggers : det[c].failed => det[c].marked = {}

\* C9 as stated: once a cycle whose fetch succeeded has ended, every event the
\* fetch returned is processed.
C9_FetchedAreProcessed ==
  \A c \in Triggers :
    det[c].pc = "idle" => \A i \in Range(det[c].batch) : logs[i].processed

\* C9 amended: once a cycle has ended after its fetch and its updateMany both
\* succeeded, every event the fetch returned is processed, whatever the rules did.
C9_CompletedAreProcessed ==
  \A c \in Triggers :
    det[c].outcome = "completed" => \A i \in Range(det[c].batch) : logs[i].processed

\* A cycle completed over two fetched events although one of its rules threw.
C9_Witness ==
  \E c \in Triggers :
    /\ det[c].pc = "idle"
    /\ det[c].outcome = "completed"
    /\ Len(det[c].batch) >= 2
    /\ det[c].threw # {}
    /\ det[c].evaluated # {}

KeyOf(x) == <<x.type, x.sourceIp>>
AlertsOf(k) == {i \in 1..Len(alerts) : KeyOf(alerts[i]) = k}

\* C2: whenever sequential detection cycles over an unchanged batch have ended,
\* exactly one alert exists per (type, sourceIp) for which a rule returned a
\* detection, and no other alert exists.
C2_OneAlertPerMatchedKey ==
  det["interval"].pc = "idle" =>
    /\ \A x \in produced : Cardinality(AlertsOf(KeyOf(x))) = 1
    /\ \A i \in 1..Len(alerts) : \E x \in produced : KeyOf(x) = KeyOf(alerts[i])

\* A later tick: a further cycle has completed over the batch (it fetched
\* nothing), and the alert several detections of the first cycle merged into is
\* still the only one.
C2_Witness ==
  /\ det["interval"].pc = "idle"
  /\ det["interval"].outcome = "completed"
  /\ det["interval"].batch = <<>>
  /\ now > 0
  /\ \E i \in 1..Len(alerts) : Len(alerts[i].relatedLogs) >= 2
  /\ \A i \in 1..Len(logs) : logs[i].processed

\* The brute_force alerts of an address that createAlert would still merge into.
BruteAlerts(ip) ==
  {i \in 1..Len(alerts) :
     /\ alerts[i].type = "brute_force"
     /\ alerts[i].sourceIp = ip
     /\ ActiveInWindow(alerts[i])}

\* A cycle has completed whose fetch returned one failed login, of an address
\* that has a brute_force alert inside the window.
OneMoreFailedLogin(c) ==
  /\ det[c].outcome = "completed"
  /\ Len(det[c].batch) = 1
  /\ "failed" \in logs[det[c].batch[1]].message
  /\ BruteAlerts(logs[det[c].batch[1]].sourceIp) # {}

Correlated(x) == x.correlationId # NoCorrelation

\* The alerts createCorrelatedAlert would find for a correlationId.
CorrelatedAlerts(cid) ==
  {i \in 1..Len(alerts) :
     alerts[i].correlationId = cid /\ alerts[i].status \in {"active", "investigating"}}

\* C5: once a correlation cycle has completed without a repository failure, every
\* candidate its rules returned is a stored alert of the rule's type with
\* detectionMethod correlation.
C5_CandidatesPersisted ==
  \A c \in Triggers :
    corr[c].outcome = "completed" /\ corr[c].pc = "idle" /\ ~corr[c].failed =>
      \A x \in corr[c].found :
        \E i \in CorrelatedAlerts(x.correlationId) :
          alerts[i].type = x.type /\ alerts[i].detectionMethod = "correlation"

\* C6: once two correlation cycles that returned candidates with the same
\* correlationId have completed, exactly one alert has that correlationId and its
\* confidence is the larger of the two candidates' confidences.
C6_SameIdOneAlertMaxConfidence ==
  \A x \in corr["interval"].found, y \in corr["cron"].found :
    /\ x.correlationId = y.correlationId
    /\ \A c \in Triggers :
         corr[c].outcome = "completed" /\ corr[c].pc = "idle" /\ ~corr[c].failed
    => /\ Cardinality(CorrelatedAlerts(x.correlationId)) = 1
       /\ \A i \in CorrelatedAlerts(x.correlationId) :
            alerts[i].confidence = Max(x.confidence, y.confidence)

\* The finding of a correlation candidate: the rule and its grouping key (the
\* address, attack type or user the correlationId ends with).
FindingOf(x) == <<x.type, x.correlationId[3]>>

\* C7: correlation cycles run at different times over the same events return
\* the same finding under the same correlationId, and at most one active or
\* investigating alert exists per finding.
C7_RedetectedFindingSameKey ==
  /\ \A x, y \in {z \in produced : Correlated(z)} :
       FindingOf(x) = FindingOf(y) => x.correlationId = y.correlationId
  /\ \A i, j \in 1..Len(alerts) :
       /\ alerts[i].detectionMethod = "correlation"
       /\ alerts[j].detectionMethod = "correlation"
       /\ alerts[i].status \in {"active", "investigating"}
       /\ alerts[j].status \in {"active", "investigating"}
       /\ FindingOf(alerts[i]) = FindingOf(alerts[j])
       => i = j

\* C8: every stored alert has riskScore = min(10, weight(severity) * confidence /
\* 100) (kept times 100), whatever has been done to it.
C8_RiskScoreInvariant ==
  \A i \in 1..Len(alerts) :
    alerts[i].riskScore
      = (LET w == CASE alerts[i].severity = "low" -> 2
                    [] alerts[i].severity = "medium" -> 5
                    [] alerts[i].severity = "high" -> 8
                    [] alerts[i].severity = "critical" -> 10
             s == w * alerts[i].confidence
         IN IF s > 1000 THEN 1000 ELSE s)

\* An alert posted with low severity and confidence 50 that a detection has
\* merged into (confidence 85), that was assigned, resolved, given evidence and a
\* notification record.
C8_Witness ==
  \E i \in 1..Len(alerts) :
    /\ alerts[i].severity = "low"
    /\ alerts[i].confidence = 85
    /\ alerts[i].relatedLogs # <<>>
    /\ alerts[i].status = "resolved"
    /\ alerts[i].assignedTo = "u1"
    /\ alerts[i].evidence >= 1
    /\ alerts[i].notifications # <<>>
    /\ alerts[i].riskScore = 170

\* The rules of the two engines that are enabled.
EnabledDetection == {r \in 1..Len(detectionRules) : detEnabled[r]}
EnabledCorrelation == {r \in 1..Len(correlationRules) : corrEnabled[r]}

\* The candidates in found that rules outside threw returned.
OfOtherRules(found, rules, threw) ==
  {x \in found : \A r \in threw : rules[r].type # x.type}

C11_ConfidenceNeverDecreases ==
  [][\A i \in 1..Len(alerts) : alerts'[i].confidence >= alerts[i].confidence]_vars
\* C12: relatedLogs of every stored alert holds each log id at most once, also
\* after a batch was evaluated again because its mark-processed write failed.
C12_RelatedLogsAreASet ==
  \A i \in 1..Len(alerts) :
    \A k, l \in 1..Len(alerts[i].relatedLogs) :
      alerts[i].relatedLogs[k] = alerts[i].relatedLogs[l] => k = l
\* C13: the status of an alert only ever changes along active -> investigating
\* -> resolved | false_positive: no step leaves a terminal status, goes back to
\* active, or goes from active straight to a terminal status.
C13_StatusStateMachine ==
  [][\A i \in 1..Len(alerts) :
       alerts'[i].status # alerts[i].status =>
         <<alerts[i].status, alerts'[i].status>>
           \in {<<"active", "investigating">>, <<"investigating", "resolved">>,
                <<"investigating", "false_positive">>}]_vars
\* C19: every alert createAlert has stored carries a creation entry in its
\* timeline and one "merged" entry per candidate merged into it (the injection
\* and privilege rules hand over one log per candidate, so such an alert has
\* received Len(relatedLogs) - 1 merges).
C19_TimelineEntryPerMaterialize ==
  \A i \in 1..Len(alerts) :
    /\ Len(alerts[i].timeline) >= 1
    /\ alerts[i].type \in {"sql_injection", "privilege_escalation"} =>
         Len(alerts[i].timeline) >= Len(alerts[i].relatedLogs)

\* C20: at no time are two invocations of runDetectionCycle, or two invocations
\* of runCorrelationCycle, in flight.
C20_SkipIfRunning ==
  /\ ~(det["interval"].pc # "idle" /\ det["cron"].pc # "idle")
  /\ ~(corr["interval"].pc # "idle" /\ corr["cron"].pc # "idle")
\* The notifications scan n queued for alert i.
EnqueuedBy(n, i) ==
  {id \in 1..Len(notifs) : notifs[id].scan = n /\ notifs[id].alertId = i}

\* The channel names the notification records of an alert contain.
Recorded(a) == UNION {NamesIn(a.notifications[k].method) : k \in 1..Len(a.notifications)}

\* The escalation tiers as the specification lists them: timeout in ticks of five
\* minutes, channels, and position in the scan.
TierTimeout(severity) ==
  CASE severity = "critical" -> 1 [] severity = "high" -> 3 [] severity = "medium" -> 6
TierChannels(severity) ==
  CASE severity = "critical" -> <<"email", "webhook", "dashboard">>
    [] severity = "high" -> <<"email", "dashboard">>
    [] severity = "medium" -> <<"dashboard">>
TierRule(severity) ==
  CASE severity = "critical" -> 1 [] severity = "high" -> 2 [] severity = "medium" -> 3

\* C14: once a scan has gone through the critical tier, every alert that was
\* active, critical and at least five minutes old when the tier's find ran, with
\* no notification record naming email, webhook or dashboard, has exactly one
\* notification queued by this scan, and it names email, webhook, dashboard.
C14_OneEscalationPerScan ==
  1 \in scan.done =>
    \A i \in 1..Len(scan.view[1]) :
      /\ scan.view[1][i].status = "active"
      /\ scan.view[1][i].severity = "critical"
      /\ scan.view[1][i].createdAt <= scan.at - 1
      /\ Recorded(scan.view[1][i]) \cap {"email", "webhook", "dashboard"} = {}
      => /\ Cardinality(EnqueuedBy(scan.n, i)) = 1
         /\ \A id \in EnqueuedBy(scan.n, i) :
              notifs[id].channels = <<"email", "webhook", "dashboard">>

\* The second scan has gone through the critical tier and has escalated again an
\* alert the first scan had escalated (the record of the first notification was
\* not written), each scan once.
C14_Witness ==
  /\ scan.n = 2
  /\ 1 \in scan.done
  /\ \E i \in 1..Len(alerts) :
       /\ alerts[i].severity = "critical"
       /\ Cardinality(EnqueuedBy(1, i)) = 1
       /\ Cardinality(EnqueuedBy(2, i)) = 1

\* C15: no alert ever has two escalation notifications of the same tier (in this
\* scenario an alert that leaves active never returns to it).
C15_EscalatedOnce ==
  \A id1, id2 \in 1..Len(notifs) :
    /\ notifs[id1].alertId = notifs[id2].alertId
    /\ notifs[id1].channels = notifs[id2].channels
    => id1 = id2

\* C16: once a scan has gone through a tier, every alert that was active, of the
\* tier's severity and past its timeout when the tier's find ran, and whose
\* records did not name every channel of the tier, has been queued by this scan.
C16_EscalatedUntilAllChannelsNotified ==
  \A sev \in {"critical", "high", "medium"} :
    TierRule(sev) \in scan.done =>
      \A i \in 1..Len(scan.view[TierRule(sev)]) :
        /\ scan.view[TierRule(sev)][i].status = "active"
        /\ scan.view[TierRule(sev)][i].severity = sev
        /\ scan.view[TierRule(sev)][i].createdAt <= scan.at - TierTimeout(sev)
        /\ ~(Range(TierChannels(sev)) \subseteq Recorded(scan.view[TierRule(sev)][i]))
        => EnqueuedBy(scan.n, i) # {}

\* C17: every notification a scan has queued is for an alert that was active, of
\* severity critical, high or medium and at least its tier's timeout old when the
\* scan found it, and names exactly the channels of that tier.
C17_OnlyDueActiveAlertsEscalated ==
  \A id \in 1..Len(notifs) :
    /\ notifs[id].alert.status = "active"
    /\ notifs[id].alert.severity \in {"critical", "high", "medium"}
    /\ notifs[id].createdAt - notifs[id].alert.createdAt
         >= TierTimeout(notifs[id].alert.severity)
    /\ notifs[id].channels = TierChannels(notifs[id].alert.severity)
    /\ notifs[id].scan = scan.n =>
         LET seen == scan.view[TierRule(notifs[id].alert.severity)][notifs[id].alertId]
         IN /\ seen.status = "active"
            /\ seen.severity = notifs[id].alert.severity
            /\ seen.createdAt = notifs[id].alert.createdAt

\* A finished scan that queued a notification for a medium alert and none for a
\* high alert that was old enough but under investigation when the scan ran.
C17_Witness ==
  /\ scan.pc = "idle"
  /\ scan.done = {1, 2, 3}
  /\ \E id \in 1..Len(notifs) :
       notifs[id].alert.severity = "medium" /\ notifs[id].scan = scan.n
  /\ \E i \in 1..Len(alerts) :
       /\ scan.view[2][i].severity = "high"
       /\ scan.view[2][i].status = "investigating"
       /\ scan.view[2][i].createdAt <= scan.at - 3
       /\ EnqueuedBy(scan.n, i) = {}
\* C18: every stored alert of severity high or critical has a notification
\* queued for it (createAlert queues it before it returns).
C18_HighAlertsAreNotified ==
  \A i \in 1..Len(alerts) :
    alerts[i].severity \in {"high", "critical"} =>
      \E id \in 1..Len(notifs) : notifs[id].alertId = i
\* The failed logins of an address among the given ids, in their order.
FailedLoginsOf(ids, ip) ==
  SelectSeq(ids, LAMBDA i : /\ logs[i].category = "security"
                            /\ "failed" \in logs[i].message
                            /\ logs[i].sourceIp = ip)

\* The logs inside the detection window, processed or not, newest first.
InDetectionWindow ==
  SortNewestFirst(logs, {i \in 1..Len(logs) : logs[i].timestamp >= now - timeWindow})

\* Detections D hold exactly one detection for the address when it has five or
\* more failed logins own, with confidence min(95, 60 + 5n) and these logins as
\* relatedLogs, and none when it has fewer.
FiresOncePerAddress(D, own, ip) ==
  IF Len(own) >= 5
  THEN /\ Cardinality({k \in 1..Len(D) : D[k].sourceIp = ip}) = 1
       /\ \A k \in 1..Len(D) :
            D[k].sourceIp = ip =>
              /\ D[k].confidence = (IF 60 + 5 * Len(own) > 95 THEN 95 ELSE 60 + 5 * Len(own))
              /\ D[k].relatedLogs = own
  ELSE \A k \in 1..Len(D) : D[k].sourceIp # ip

ApplicationEvents ==
  {i \in 1..Len(logs) : /\ logs[i].timestamp >= now - timeWindow
                        /\ ~logs[i].processed
                        /\ logs[i].category = "application"
                        /\ logs[i].sourceIp # NoIp}

\* The number of these events per address.
ApplicationCounts ==
  [a \in {logs[i].sourceIp : i \in ApplicationEvents} |->
     Cardinality({i \in ApplicationEvents : logs[i].sourceIp = a})]

\* count > mean + 3 * stddev for the per-address counts cnt, n addresses with
\* sum S and sum of squares Q (mean = S / n, stddev = sqrt(n * Q - S * S) / n):
\* an integer exceeds a square root iff it exceeds the root's floor.
ExceedsThreeSigma(count, n, S, Q) ==
  n * count - S > ISqrt(9 * (n * Q - S * S))

\* The addresses the detections D flag are those whose count exceeds both the
\* threshold and the floor.
FlagsExactly(D, cnt) ==
  \E n \in {Cardinality(DOMAIN cnt)}, S \in {SumOver(cnt, DOMAIN cnt)},
     Q \in {SumOver([a \in DOMAIN cnt |-> cnt[a] * cnt[a]], DOMAIN cnt)} :
    /\ \A a \in DOMAIN cnt :
         (\E k \in 1..Len(D) : D[k].sourceIp = a)
           <=> (ExceedsThreeSigma(cnt[a], n, S, Q) /\ cnt[a] > 50)
    /\ \A k \in 1..Len(D) : D[k].sourceIp \in DOMAIN cnt
    /\ n < 2 => D = <<>>
    /\ (n = 4 /\ S = 90 /\ Q = 3900) => D = <<>>

\* C22: the anomalous-volume rule flags an address iff its application-event
\* count is strictly greater than mean + 3 * stddev (population statistics over
\* the per-address counts) and strictly greater than 50; nothing is flagged with
\* fewer than two addresses, nor for the counts 10, 10, 10, 60 (the only four
\* counts of the scenario with sum 90 and sum of squares 3900).
C22_AnomalousVolume ==
  \E D \in {detectAnomalousTraffic(logs, RecentUnprocessed(logs, now))},
     cnt \in {ApplicationCounts} :
    FlagsExactly(D, cnt)

\* The longest window among the enabled correlation rules.
EnabledWindow ==
  LET W == {correlationRules[r].timeWindow :
              r \in {q \in 1..Len(correlationRules) : corrEnabled[q]}}
  IN CHOOSE m \in W : \A w \in W : w <= m

\* C23: a correlation cycle fetches no event older than the longest window among
\* the enabled correlation rules.
C23_HorizonOfEnabledRules ==
  [][\A c \in Triggers :
       (/\ corr[c].pc = "idle"
        /\ corr'[c].pc = "findAlerts"
        /\ \E r \in 1..Len(correlationRules) : corrEnabled[r])
         => \A k \in 1..Len(corr'[c].logs) :
              logs[corr'[c].logs[k]].timestamp >= now - EnabledWindow]_vars
\* C24: calculateCorrelationSeverity is a first-match decision list: critical iff
\* confidence >= 80 and three or more assets; else high iff confidence >= 70 or two
\* or more assets; else medium iff confidence >= 60; else low.
C24_SeverityDecisionList ==
  (call.fn = "calculateCorrelationSeverity" /\ call.done) =>
    \E c \in {call.arg.confidence}, n \in {Cardinality(call.arg.affectedAssets)} :
      /\ call.result \in {"critical", "high", "medium", "low"}
      /\ call.result = "critical" <=> (c >= 80 /\ n >= 3)
      /\ call.result = "high" <=> (~(c >= 80 /\ n >= 3) /\ (c >= 70 \/ n >= 2))
      /\ call.result = "medium" <=> (c < 70 /\ n < 2 /\ c >= 60)
      /\ call.result = "low" <=> (c < 60 /\ n < 2)

\* The call with confidence 80 and three assets has returned critical.
C24_Witness ==
  /\ call.fn = "calculateCorrelationSeverity"
  /\ call.done
  /\ call.arg.confidence = 80
  /\ Cardinality(call.arg.affectedAssets) = 3
  /\ call.result = "critical"
\* The keyword groups of the attack stages, in the order they are tested.
StageKeywords ==
  << [stage |-> "reconnaissance", words |-> {"scan", "probe"}],
     [stage |-> "initial_access", words |-> {"login", "access"}],
     [stage |-> "privilege_escalation", words |-> {"privilege", "escalat"}],
     [stage |-> "lateral_movement", words |-> {"lateral", "movement"}],
     [stage |-> "data_exfiltration", words |-> {"data", "exfiltrat"}] >>

\* The stages a text is classified into: the first group one of whose keywords it
\* contains, if any.
ClassifiedAs(text) ==
  {StageKeywords[g].stage :
     g \in {h \in 1..Len(StageKeywords) :
              /\ text \cap StageKeywords[h].words # {}
              /\ \A e \in 1..(h - 1) : text \cap StageKeywords[e].words = {}}}

\* The stages of the fetched logs lg and alerts al of an address.
StagesOfAddress(lg, al, ip) ==
  UNION ({ClassifiedAs(logs[i].message) : i \in {j \in Range(lg) : logs[j].sourceIp = ip}}
         \cup {ClassifiedAs(alerts[i].title) : i \in {j \in Range(al) : alerts[j].sourceIp = ip}})

\* identifyAttackStages returns st for the address, and the attack-chain
\* correlations D hold a candidate for it, as the claim says.
ChainAsClaimed(D, st, expected, ip) ==
  /\ Range(st) = expected
  /\ Len(st) = Cardinality(expected)
  /\ Len(st) <= 5
  /\ Cardinality({k \in 1..Len(D) : D[k].sourceIp = ip})
       = (IF Cardinality(expected) >= 3 THEN 1 ELSE 0)
  /\ \A k \in 1..Len(D) :
       D[k].sourceIp = ip =>
         D[k].confidence = (IF 60 + 10 * Cardinality(expected) > 95 THEN 95
                            ELSE 60 + 10 * Cardinality(expected))

\* C25: for every address each fetched event or alert counts for at most one
\* stage, the first whose keywords it contains; each stage is listed once; the
\* address is an attack-chain candidate iff three or more stages are listed, with
\* confidence min(95, 60 + 10 * stages).
C25_AttackChainStages ==
  \E lg \in {RecentLogs(logs, now)}, al \in {RecentAlerts(alerts, now)} :
    \E D \in {detectAttackChain(logs, alerts, lg, al, now)} :
      \A ip \in Attackers :
        ChainAsClaimed(D,
                       identifyAttackStages(logs, alerts,
                         [logs |-> FromIp(logs, lg, ip),
                          alerts |-> SelectSeq(al, LAMBDA i : alerts[i].sourceIp = ip)]),
                       StagesOfAddress(lg, al, ip), ip)

\* A correlation cycle is storing the attack chain of an address with four
\* stages, an alert among its events, and a log that names two stages.
C25_Witness ==
  /\ corr["interval"].pc = "findOne"
  /\ corr["interval"].rule = 1
  /\ corr["interval"].cands[1].sourceIp = "203.0.113.10"
  /\ corr["interval"].cands[1].confidence = 95
  /\ Cardinality(StagesOfAddress(corr["interval"].logs, corr["interval"].alerts,
                                 "203.0.113.10")) = 4
  /\ \E i \in Range(corr["interval"].alerts) : alerts[i].sourceIp = "203.0.113.10"
  /\ \E i \in Range(corr["interval"].logs) : logs[i].message = {"scan", "login"}
\* The fetched data-movement events of an address.
DataMovements(lg, ip) ==
  {i \in Range(lg) :
     /\ logs[i].sourceIp = ip
     /\ logs[i].message \cap {"database", "file", "download", "export", "backup"} # {}}

\* The data-breach correlations D hold for the address what the claim says of its
\* data movements ev.
BreachAsClaimed(D, ev, ip) ==
  \E volume \in {SumOver([i \in ev |-> logs[i].size], ev)}, count \in {Cardinality(ev)} :
    /\ Cardinality({k \in 1..Len(D) : D[k].sourceIp = ip})
         = (IF volume > 50 \/ count >= 5 THEN 1 ELSE 0)
    /\ \A k \in 1..Len(D) :
         D[k].sourceIp = ip =>
           D[k].confidence = (IF volume > 50 /\ count >= 5 THEN 80 ELSE 60)

\* C26: the data-breach rule produces a candidate for an address iff the
\* cumulative size of its data-movement events exceeds 50 MiB or there are five
\* or more of them, with confidence 80 when both hold and 60 when one holds.
C26_DataBreachPattern ==
  \E lg \in {RecentLogs(logs, now)} :
    \E D \in {detectDataBreachPattern(logs, alerts, lg, RecentAlerts(alerts, now), now)} :
      \A ip \in Attackers : BreachAsClaimed(D, DataMovements(lg, ip), ip)

\* A correlation cycle is storing the breach pattern of an address with five
\* data movements of more than 50 MiB together, next to a transfer that is not one.
C26_Witness ==
  /\ corr["interval"].pc = "findOne"
  /\ corr["interval"].rule = 4
  /\ corr["interval"].cands[1].sourceIp = "203.0.113.10"
  /\ corr["interval"].cands[1].confidence = 80
  /\ Cardinality(DataMovements(corr["interval"].logs, "203.0.113.10")) = 5
  /\ \E i \in Range(corr["interval"].logs) : logs[i].message = {}
\* C27: a call of updateStatus that changes the status of the alert appends
\* exactly one timeline entry, which records the old and the new status, and
\* leaves the earlier entries as they were, in their order.
C27_StatusChangeAppendsOneEntry ==
  [][(/\ req.pc = "loaded"
      /\ req.op = "updateStatus"
      /\ req'.pc = "idle"
      /\ req.arg # req.doc.status)
       => /\ alerts[req.doc.idx].status = req.doc.status
          /\ alerts'[req.doc.idx].status = req.arg
          /\ Len(alerts'[req.doc.idx].timeline) = Len(alerts[req.doc.idx].timeline) + 1
          /\ SubSeq(alerts'[req.doc.idx].timeline, 1, Len(alerts[req.doc.idx].timeline))
               = alerts[req.doc.idx].timeline
          /\ alerts'[req.doc.idx].timeline[Len(alerts'[req.doc.idx].timeline)]
               = [event |-> "Status Changed",
                  details |-> <<"from", req.doc.status, "to", req.arg>>]]_vars

\* An alert that was assigned and then taken from active to investigating holds
\* the two entries in this order.
C27_Witness ==
  \E i \in 1..Len(alerts) :
    /\ alerts[i].status = "investigating"
    /\ Len(alerts[i].timeline) = 2
    /\ alerts[i].timeline[1].event = "Alert Assigned"
    /\ alerts[i].timeline[2]
         = [event |-> "Status Changed",
            details |-> <<"from", "active", "to", "investigating">>]

\* C28: every alert in status resolved or false_positive has resolvedAt and
\* resolvedBy set.
C28_ClosedAlertsAreStamped ==
  \A i \in 1..Len(alerts) :
    alerts[i].status \in {"resolved", "false_positive"}
      => alerts[i].resolvedAt # NoTime /\ alerts[i].resolvedBy # NoUser
\* The rules the step of a cycle has evaluated.
NewlyEvaluated(c) ==
  IF det'[c] = det[c] THEN {}
  ELSE IF det[c].pc = "idle" THEN det'[c].evaluated
  ELSE det'[c].evaluated \ det[c].evaluated

\* C29: a detection rule is evaluated only while it is enabled, and a cycle stores
\* alerts only for rules it has evaluated; updateDetectionRule sets the flag of
\* the named rule and of no other, and nothing for a name no rule has; a completed
\* cycle has marked every fetched event processed whatever rules are enabled.
C29_DisabledRuleIsSkipped ==
  [][/\ \A c \in Triggers : \A r \in NewlyEvaluated(c) : detEnabled[r]
     /\ \A c \in Triggers :
          (det[c].pc = "save" /\ alerts' # alerts) =>
            /\ det[c].rule \in det[c].evaluated
            /\ \E i \in 1..Len(alerts') :
                 /\ alerts'[i].type = detectionRules[det[c].rule].type
                 /\ (i > Len(alerts) \/ alerts'[i] # alerts[i])
     /\ (call' # call \/ detEnabled' # detEnabled) =>
          /\ call'.fn = "updateDetectionRule"
          /\ DOMAIN detEnabled' = 1..Len(detectionRules)
          /\ \A r \in 1..Len(detectionRules) :
               detEnabled'[r] = (IF detectionRules[r].name = call'.arg.ruleName
                                 THEN call'.arg.updates.enabled ELSE detEnabled[r])
     /\ \A c \in Triggers :
          (det[c].pc = "mark" /\ det'[c].pc = "idle") =>
            \A i \in Range(det[c].batch) : logs'[i].processed]_vars

\* With the injection rule switched off, a cycle has fetched an injection,
\* evaluated the other rules, stored no alert and marked the log processed.
C29_Witness ==
  /\ call.fn = "updateDetectionRule"
  /\ call.arg = [ruleName |-> "SQL Injection Detection", updates |-> [enabled |-> FALSE]]
  /\ ~detEnabled[2]
  /\ det["interval"].pc = "idle"
  /\ det["interval"].outcome = "completed"
  /\ det["interval"].evaluated = {1, 3, 4, 5}
  /\ \E i \in det["interval"].marked :
       logs[i].message = {"union select"} /\ logs[i].processed
  /\ alerts = <<>>
\* C30: every log stored with processed = false is eventually marked processed
\* by a detection cycle.
C30_EveryLogIsProcessed ==
  \A i \in 1..MaxLogs :
    (i <= Len(logs) /\ ~logs[i].processed) ~> (i <= Len(logs) /\ logs[i].processed)
\* C31: no notification has had the handler of a channel resolve more than once
\* for it, and none has been attempted more than maxAttempts times.
C31_DeliveredOnceAttemptedThrice ==
  \A id \in 1..Len(notifs) :
    /\ \A c \in ChannelNames : notifs[id].handled[c] <= 1
    /\ notifs[id].attempts <= maxAttempts
\* C32: the candidates one correlation rule returned in one cycle (one per group)
\* have pairwise different correlationIds.
C32_DistinctFindingsDistinctIds ==
  \A c \in Triggers :
    \A j, k \in 1..Len(corr[c].cands) :
      j # k => corr[c].cands[j].correlationId # corr[c].cands[k].correlationId
\* C33: the record processNotification pushes on an alert names only channels
\* whose handler has resolved for that notification.
C33_RecordNamesDeliveredChannels ==
  [][\A p \in Callers :
       proc[p].pc = "record" /\ proc'[p] # proc[p] /\ alerts' # alerts =>
         \E id \in {Head(proc[p].pending)} :
           NamesIn(alerts'[notifs[id].alertId].notifications[
                     Len(alerts'[notifs[id].alertId].notifications)].method)
             \subseteq {c \in ChannelNames : notifs[id].handled[c] > 0}]_vars
\* C34: every candidate of a correlation rule is derived only from logs and
\* alerts not older than the time of the cycle minus that rule's timeWindow.
C34_RuleEvaluatesOwnWindow ==
  \A c \in Triggers :
    corr[c].pc \in {"findOne", "save"} =>
      \A k \in 1..Len(corr[c].cands) :
        /\ \A i \in Range(corr[c].cands[k].relatedLogs) :
             logs[i].timestamp >= now - correlationRules[corr[c].rule].timeWindow
        /\ \A i \in Range(corr[c].cands[k].relatedAlerts) :
             alerts[i].createdAt >= now - correlationRules[corr[c].rule].timeWindow
\* C35: a log becomes processed only in the mark-processed write of a detection
\* cycle whose batch holds it (a log stored meanwhile stays unprocessed), a new
\* log is stored unprocessed, and the fetch of a cycle returns every unprocessed
\* log inside the window, whenever it was stored.
C35_MarksOnlyOwnBatch ==
  [][/\ \A i \in 1..Len(logs') :
          logs'[i].processed /\ (i > Len(logs) \/ ~logs[i].processed) =>
            \E c \in Triggers : /\ det[c].pc = "mark"
                                /\ det'[c].pc = "idle"
                                /\ i \in Range(det[c].batch)
     /\ \A c \in Triggers :
          det[c].pc = "idle" /\ det'[c].pc # "idle" =>
            Range(det'[c].batch)
              = {i \in 1..Len(logs) : /\ ~logs[i].processed
                                      /\ logs[i].timestamp >= now - timeWindow}]_vars

\* A cycle has fetched a log that an earlier cycle, which fetched and marked an
\* older log of the same tick, did not get: it was stored after that fetch.
C35_Witness ==
  \E c \in Triggers :
    /\ det[c].pc # "idle"
    /\ \E i \in Range(det[c].batch), j \in 1..Len(logs) :
         /\ j < i
         /\ logs[j].processed
         /\ ~logs[i].processed
         /\ logs[j].timestamp = logs[i].timestamp

\* C37: over every sequence of initialize, startDetection and stopDetection at
\* most one interval timer is active, and no timer or cron callback starts a
\* detection cycle while isRunning is false.
C37_OneTimerGatedCallbacks ==
  /\ [](Cardinality(detector.timers) <= 1)
  /\ [][\A c \in Triggers :
          det[c].pc = "idle" /\ det'[c].pc # "idle" => detector.isRunning]_vars

\* The detector was stopped and started again, and the second timer's callback
\* has a cycle in flight.
C37_Witness ==
  /\ detector.isRunning
  /\ detector.handles = 2
  /\ detector.timers = {2}
  /\ det["interval"].pc # "idle"

\* C38: runCorrelationCycle never modifies a LogEvent, the processed flag
\* included, and its fetch returns every log of the correlation window whatever
\* the value of processed.
C38_CorrelationLeavesLogs ==
  [][\A c \in Triggers :
       corr'[c] # corr[c] =>
         /\ logs' = logs
         /\ corr[c].pc = "idle" =>
              Range(corr'[c].logs) =
                {i \in 1..Len(logs) : logs[i].timestamp >= now - CorrelationWindow}]_vars

\* A correlation cycle reports a finding over a batch that holds a log the
\* detection cycle has marked and a log it has not.
C38_Witness ==
  \E c \in Triggers :
    /\ corr[c].pc \in {"findOne", "save"}
    /\ \E i \in Range(corr[c].logs) : logs[i].processed
    /\ \E i \in Range(corr[c].logs) : ~logs[i].processed
    /\ \E i \in Range(Head(corr[c].cands).relatedLogs) : logs[i].processed

\* C39: when a call of processNotificationQueue that ran alone returns, the
\* queue holds only pending notifications with fewer than maxAttempts attempts,
\* and every notification queued during the call is still in the queue.
C39_QueueAfterLoneCall ==
  \A p \in Callers : \A s \in Range(proc[p].post) :
    /\ \A k \in 1..Len(s.queue) :
         /\ s.notifs[s.queue[k]].status = "pending"
         /\ s.notifs[s.queue[k]].attempts < maxAttempts
    /\ \A id \in (s.first + 1)..Len(s.notifs) : id \in Range(s.queue)

\* A call that ran alone has sent a notification and returned, and a notification
\* queued while it ran waits in the queue.
C39_Witness ==
  \E p \in Callers : \E s \in Range(proc[p].post) :
    /\ s.first < Len(s.notifs)
    /\ \E id \in 1..s.first : s.notifs[id].status = "sent"
    /\ s.queue # <<>>

\* C36: with ten or fewer distinct addresses in the batch the anomalous-volume
\* rule flags no address, whatever the counts.
C36_NoFlagUpToTenAddresses ==
  Cardinality(DOMAIN ApplicationCounts) <= 10
    => detectAnomalousTraffic(logs, RecentUnprocessed(logs, now)) = <<>>
====
